---- MODULE Spec2Model ----
(***************************************************************************)
(* Model of the compliance validator of the CC0 World Generator            *)
(* (src/src/generate.py, validate_world) and of the way its callers use    *)
(* it (src/src/mcp_server.py, cc0_validate_world: deep copy, validate).    *)
(*                                                                         *)
(* Encoding of JSON values                                                 *)
(*   - an optional key of a mapping is a sequence of length <= 1:          *)
(*     <<>> is "key absent", <<v>> is "key present with value v";          *)
(*   - a JSON list is a sequence, a JSON string a string;                  *)
(*   - a risk flag "category:severity" is the sequence of its segments     *)
(*     between colons, <<"category", "severity">>, so that                 *)
(*     str.endswith(":high") can be computed.                              *)
(***************************************************************************)
EXTENDS Integers, Sequences, FiniteSets, TLC

VARIABLES
    world_json,     \* the caller's parsed document (params.world_json), never written
    data,           \* the document object handed to validate_world (mutated in place)
    calls,          \* how many times validate_world has run on data
    errors,         \* the list returned by the latest call
    first_errors,   \* the list returned by the first call
    locals,         \* the local variables of the latest call (Rule 3 / Rule 4)
    returncode,     \* result.returncode of the `cast call` subprocess
    printed,        \* the tuples cast printed, and how each reached stdout
    stdout,         \* result.stdout, the text handed to the decoder
    decoded,        \* outcome of the latest _parse_cast_generation_output call
    generations,    \* token_data["generations"] of the latest request
    rows,           \* the timestamp cells of the latest manifests page
    last_generated_at,  \* payload["last_generated_at"] of the latest JSON manifest
    served,         \* the handlers that have answered a request
    used_payment_txs,   \* the replay guard _used_payment_txs of the MCP server
    mints,          \* the successful mintAgent transactions with the call's input, oldest first
    mint_call,      \* the latest worldkit_mint call: its input and what it did
    mint_calls,     \* how many worldkit_mint calls have returned
    jobs,           \* the in-memory job store of the web server: job id -> job
    daily_counter,  \* _daily_counter: day -> generations accepted that day
    today,          \* the calendar day date.today() reads
    clock,          \* the instant datetime.now() reads: the writes made so far
    requests,       \* how many generation requests have been answered
    accepted,       \* per day, the generation requests accepted so far
    tasks,          \* job id -> position of its run_generation background task
    streams,        \* the event streams of /api/generate-stream, oldest first
    worlds,         \* the files of WORLDS_DIR: file name -> document written
    refusal_log,    \* the lines appended to the refusal log, oldest first
    stream_event,   \* the last event of the event stream just finished
    post_response,  \* the answer to the generation request just handled
    status_response \* the answer to the job lookup just handled

vars == <<world_json, data, calls, errors, first_errors, locals,
          returncode, printed, stdout, decoded, generations, rows,
          last_generated_at, served,
          used_payment_txs, mints, mint_call, mint_calls,
          jobs, daily_counter, today, clock, requests, accepted, tasks,
          streams, worlds, refusal_log, stream_event, post_response,
             status_response>>

validatorVars == <<world_json, data, calls, errors, first_errors, locals>>

webVars == <<returncode, printed, stdout, decoded, generations, rows,
             last_generated_at, served>>

mintVars == <<used_payment_txs, mints, mint_call, mint_calls>>

jobVars == <<jobs, daily_counter, today, clock, requests, accepted, tasks,
             streams, worlds, refusal_log, stream_event, post_response,
             status_response>>

(***************************************************************************)
(* Bounds of the explored inputs.                                          *)
(***************************************************************************)
\* total number of list elements (characters, factions, evidence ids,
\* assets, manifest-level flags) an explored document may hold
MaxItems == 2

(***************************************************************************)
(* Python helpers.                                                         *)
(***************************************************************************)
\* dict.get(key, default)
Get(opt, default) == IF opt = <<>> THEN default ELSE opt[1]

\* "key in dict"
Has(opt) == opt # <<>>

\* truthiness of dict.get(key) for a string-valued key: None (absent) and ""
\* are falsy
Truthy(opt) == opt # <<>> /\ opt[1] # ""

\* truthiness of dict.get(key) for a list-valued key: None (absent) and []
\* are falsy
TruthyList(opt) == opt # <<>> /\ opt[1] # <<>>

\* [f(x) for x in s if p(x)] is built from these two
RECURSIVE SelectSeq2(_, _)
SelectSeq2(s, keep) ==
    IF s = <<>> THEN <<>>
    ELSE IF keep[1] THEN <<s[1]>> \o SelectSeq2(Tail(s), Tail(keep))
         ELSE SelectSeq2(Tail(s), Tail(keep))

Range(s) == {s[i] : i \in DOMAIN s}

\* f.endswith(":" + severity) on a flag given by its colon-separated segments
EndsWith(f, severity) == Len(f) >= 2 /\ f[Len(f)] = severity

(***************************************************************************)
(* Violation strings.  An f-string is modelled by its template and the     *)
(* values interpolated into it.                                            *)
(***************************************************************************)
Violation(msg, kind, label, eid, said, computed, fl) ==
    [msg |-> msg, kind |-> kind, label |-> label, eid |-> eid,
     said |-> said, computed |-> computed, flags |-> fl]

MsgRefusal    == "Refusal output must not contain"
MsgMissing    == "Missing"
MsgNoEvidence == "missing evidence_id"
MsgNotInCm    == "not in compliance_manifest evidence"
MsgMismatch   == "commercial_confidence mismatch"

(***************************************************************************)
(* validate_world, rule by rule.                                           *)
(***************************************************************************)
\* data.get("world_bible", {}) / data.get("compliance_manifest", {}): the
\* mapping without any key
EmptyWb == [title |-> <<>>, characters |-> <<>>, factions |-> <<>>]

EmptyCm ==
    [evidence_used |-> <<>>, asset_clearances |-> <<>>, assets_used |-> <<>>,
     unsuppressed_flags |-> <<>>, risk_flags |-> <<>>,
     commercial_confidence |-> <<>>, confidence_corrected |-> <<>>,
     rationale |-> <<>>]

\* variant: "if data.get(forbidden)" instead of "if forbidden in data"
RefusalErrorsTruthy(d) ==
    (IF Has(d.world_bible) /\ d.world_bible[1] # EmptyWb
        THEN <<Violation(MsgRefusal, "world_bible", "", "", <<>>, "", <<>>)>> ELSE <<>>)
    \o
    (IF Has(d.compliance_manifest) /\ d.compliance_manifest[1] # EmptyCm
        THEN <<Violation(MsgRefusal, "compliance_manifest", "", "", <<>>, "", <<>>)>> ELSE <<>>)

\* Rule 0: for forbidden in ("world_bible", "compliance_manifest"): if forbidden in data
RefusalErrors(d) ==
    (IF Has(d.world_bible)
        THEN <<Violation(MsgRefusal, "world_bible", "", "", <<>>, "", <<>>)>> ELSE <<>>)
    \o
    (IF Has(d.compliance_manifest)
        THEN <<Violation(MsgRefusal, "compliance_manifest", "", "", <<>>, "", <<>>)>> ELSE <<>>)

\* "not wb" / "not cm" for a mapping: the dict has no key at all
WbIsEmpty(wb) == ~Has(wb.title) /\ ~Has(wb.characters) /\ ~Has(wb.factions)

\* variant: the "if not cm" check left out
CmIsEmptyNever(cm) == FALSE

CmIsEmpty(cm) ==
    /\ ~Has(cm.evidence_used) /\ ~Has(cm.asset_clearances) /\ ~Has(cm.assets_used)
    /\ ~Has(cm.unsuppressed_flags) /\ ~Has(cm.risk_flags)
    /\ ~Has(cm.commercial_confidence) /\ ~Has(cm.confidence_corrected)
    /\ ~Has(cm.rationale)

\* variant: label = char.get("id", "?")
LabelIdOnly(e) == Get(e.id, "?")

\* label = char.get("id") or char.get("name", "?")
Label(e) ==
    IF Truthy(e.id) THEN e.id[1] ELSE Get(e.name, "?")

\* variant: "if 'evidence_id' not in char" instead of "if not char.get('evidence_id')"
RECURSIVE MissingEvidenceErrorsKeyOnly(_, _)
MissingEvidenceErrorsKeyOnly(entities, kind) ==
    IF entities = <<>> THEN <<>>
    ELSE (IF ~Has(entities[1].evidence_id)
             THEN <<Violation(MsgNoEvidence, kind,
                              IF Truthy(entities[1].id) THEN entities[1].id[1]
                              ELSE Get(entities[1].name, "?"),
                              "", <<>>, "", <<>>)>>
             ELSE <<>>)
         \o MissingEvidenceErrorsKeyOnly(Tail(entities), kind)

\* Invariant 1 (Rule 2): one violation per entity without a truthy evidence_id
RECURSIVE MissingEvidenceErrors(_, _)
MissingEvidenceErrors(entities, kind) ==
    IF entities = <<>> THEN <<>>
    ELSE (IF ~Truthy(entities[1].evidence_id)
             THEN <<Violation(MsgNoEvidence, kind, Label(entities[1]), "", <<>>, "", <<>>)>>
             ELSE <<>>)
         \o MissingEvidenceErrors(Tail(entities), kind)

\* [a.get("evidence_id") for a in assets if a.get("evidence_id")]
AssetEvidenceIds(assets) ==
    SelectSeq2([i \in DOMAIN assets |-> Get(assets[i].evidence_id, "")],
               [i \in DOMAIN assets |-> Truthy(assets[i].evidence_id)])

\* variant: the fallback loop without its "break"
RawDeclaredNoBreak(cm) ==
    LET evidence_used == Get(cm.evidence_used, <<>>)
        ac == Get(cm.asset_clearances, <<>>)
        au == Get(cm.assets_used, <<>>)
        after_ac == IF ac # <<>> /\ evidence_used = <<>>
                       THEN AssetEvidenceIds(ac) ELSE evidence_used
    IN  IF au # <<>> /\ after_ac = <<>> THEN AssetEvidenceIds(au) ELSE after_ac

\* Invariant 2: raw_declared with its fallback loop over
\* ("asset_clearances", "assets_used"), which breaks at the first field taken
RawDeclared(cm) ==
    LET evidence_used == Get(cm.evidence_used, <<>>)
        ac == Get(cm.asset_clearances, <<>>)
        au == Get(cm.assets_used, <<>>)
    IN  IF ac # <<>> /\ evidence_used = <<>> THEN AssetEvidenceIds(ac)
        ELSE IF au # <<>> /\ evidence_used = <<>> THEN AssetEvidenceIds(au)
        ELSE evidence_used

\* declared = set(raw_declared)
Declared(cm) == Range(RawDeclared(cm))

\* variant: "if eid not in declared" without the "eid and" guard
RECURSIVE CrossRefErrorsUnguarded(_, _, _)
CrossRefErrorsUnguarded(entities, kind, declared) ==
    IF entities = <<>> THEN <<>>
    ELSE (IF Get(entities[1].evidence_id, "") \notin declared
             THEN <<Violation(MsgNotInCm, kind,
                              IF Truthy(entities[1].id) THEN entities[1].id[1]
                              ELSE Get(entities[1].name, "?"),
                              Get(entities[1].evidence_id, ""), <<>>, "", <<>>)>>
             ELSE <<>>)
         \o CrossRefErrorsUnguarded(Tail(entities), kind, declared)

\* Rule 3: one violation per entity whose truthy evidence_id is not declared
RECURSIVE CrossRefErrors(_, _, _)
CrossRefErrors(entities, kind, declared) ==
    IF entities = <<>> THEN <<>>
    ELSE (IF Truthy(entities[1].evidence_id) /\ entities[1].evidence_id[1] \notin declared
             THEN <<Violation(MsgNotInCm, kind, Label(entities[1]),
                              entities[1].evidence_id[1], <<>>, "", <<>>)>>
             ELSE <<>>)
         \o CrossRefErrors(Tail(entities), kind, declared)

\* for f in asset.get("risk_flags", []): if f not in flags: flags.append(f)
RECURSIVE AppendNew(_, _)
AppendNew(flags, more) ==
    IF more = <<>> THEN flags
    ELSE IF more[1] \in Range(flags) THEN AppendNew(flags, Tail(more))
         ELSE AppendNew(Append(flags, more[1]), Tail(more))

RECURSIVE AppendAssetFlags(_, _)
AppendAssetFlags(flags, assets) ==
    IF assets = <<>> THEN flags
    ELSE AppendAssetFlags(AppendNew(flags, Get(assets[1].risk_flags, <<>>)), Tail(assets))

\* flags = list(cm.get("unsuppressed_flags", cm.get("risk_flags", [])))
ManifestFlags(cm) == Get(cm.unsuppressed_flags, Get(cm.risk_flags, <<>>))

\* for asset in cm.get("asset_clearances", cm.get("assets_used", []))
FlaggedAssets(cm) == Get(cm.asset_clearances, Get(cm.assets_used, <<>>))

GatherFlags(cm) == AppendAssetFlags(ManifestFlags(cm), FlaggedAssets(cm))

\* variant: the "not has_clearances" signal never fires
HasClearancesAlways(cm, declared) == TRUE

\* has_clearances = bool(cm.get("asset_clearances") or cm.get("assets_used") or declared)
HasClearances(cm, declared) ==
    TruthyList(cm.asset_clearances) \/ TruthyList(cm.assets_used) \/ declared # {}

\* variant: the "elif medium_flags" branch left out
ExpectedConfidenceNoMedium(flags, has_clearances) ==
    LET high_flags == {i \in DOMAIN flags : EndsWith(flags[i], "high")}
    IN  IF high_flags # {} \/ ~has_clearances THEN "low" ELSE "high"

\* variant: the medium branch tested before the high one
ExpectedConfidenceMediumFirst(flags, has_clearances) ==
    LET high_flags   == {i \in DOMAIN flags : EndsWith(flags[i], "high")}
        medium_flags == {i \in DOMAIN flags : EndsWith(flags[i], "medium")}
    IN  IF ~has_clearances THEN "low"
        ELSE IF medium_flags # {} THEN "medium"
        ELSE IF high_flags # {} THEN "low"
        ELSE "high"

ExpectedConfidence(flags, has_clearances) ==
    LET high_flags   == {i \in DOMAIN flags : EndsWith(flags[i], "high")}
        medium_flags == {i \in DOMAIN flags : EndsWith(flags[i], "medium")}
    IN  IF high_flags # {} \/ ~has_clearances THEN "low"
        ELSE IF medium_flags # {} THEN "medium"
        ELSE "high"

\* variant: a manifest without commercial_confidence is not reported
ConfidenceErrorsIgnoreAbsent(stated, expected, flags) ==
    IF stated # <<>> /\ stated # <<expected>>
        THEN <<Violation(MsgMismatch, "", "", "", stated, expected, flags)>>
        ELSE <<>>

\* if stated_confidence != expected_confidence: report
ConfidenceErrors(stated, expected, flags) ==
    IF stated # <<expected>>
        THEN <<Violation(MsgMismatch, "", "", "", stated, expected, flags)>>
        ELSE <<>>

\* variant: a stated 'low' is trusted, only higher statements are corrected
AutoCorrectDowngradeOnly(cm, stated, expected) ==
    IF stated # <<expected>> /\ stated # <<"low">>
        THEN [cm EXCEPT !.commercial_confidence = <<expected>>,
                        !.confidence_corrected = <<TRUE>>]
        ELSE cm

\* variant: the marker is set but the confidence is not overwritten
AutoCorrectMarkerOnly(cm, stated, expected) ==
    IF stated # <<expected>>
        THEN [cm EXCEPT !.confidence_corrected = <<TRUE>>]
        ELSE cm

\* variant: the two assignments sit outside the "if"
AutoCorrectAlways(cm, stated, expected) ==
    [cm EXCEPT !.commercial_confidence = <<expected>>,
               !.confidence_corrected = <<TRUE>>]

\* ... and auto-correct in place
AutoCorrect(cm, stated, expected) ==
    IF stated # <<expected>>
        THEN [cm EXCEPT !.commercial_confidence = <<expected>>,
                        !.confidence_corrected = <<TRUE>>]
        ELSE cm

NoLocals ==
    [ran |-> FALSE, declared |-> {}, flags |-> <<>>,
     expected_confidence |-> "", stated_confidence |-> <<>>]

\* validate_world(data): the returned list, the document after the call and the
\* locals the call computed
validate_world(d) ==
    IF Has(d.refusal) THEN
        [errors |-> RefusalErrors(d), data |-> d, locals |-> NoLocals]
    ELSE
    LET wb == Get(d.world_bible, EmptyWb)
        cm == Get(d.compliance_manifest, EmptyCm)
    IN
    IF WbIsEmpty(wb) THEN
        [errors |-> <<Violation(MsgMissing, "world_bible", "", "", <<>>, "", <<>>)>>,
         data |-> d, locals |-> NoLocals]
    ELSE IF CmIsEmpty(cm) THEN
        [errors |-> <<Violation(MsgMissing, "compliance_manifest", "", "", <<>>, "", <<>>)>>,
         data |-> d, locals |-> NoLocals]
    ELSE
    LET characters == Get(wb.characters, <<>>)
        factions   == Get(wb.factions, <<>>)
        declared   == Declared(cm)
        flags      == GatherFlags(cm)
        expected   == ExpectedConfidence(flags, HasClearances(cm, declared))
        stated     == cm.commercial_confidence
    IN  [errors |->
            MissingEvidenceErrors(characters, "Character")
            \o MissingEvidenceErrors(factions, "Faction")
            \o CrossRefErrors(characters, "Character", declared)
            \o CrossRefErrors(factions, "Faction", declared)
            \o ConfidenceErrors(stated, expected, flags),
         data |-> [d EXCEPT !.compliance_manifest = <<AutoCorrect(cm, stated, expected)>>],
         locals |-> [ran |-> TRUE, declared |-> declared, flags |-> flags,
                     expected_confidence |-> expected, stated_confidence |-> stated]]

(***************************************************************************)
(* The explored documents: what json.loads may hand to the validator.      *)
(***************************************************************************)
Opt(S) == {<<>>} \cup {<<x>> : x \in S}

RECURSIVE SeqsOfLen(_, _)
SeqsOfLen(S, n) ==
    IF n = 0 THEN {<<>>}
    ELSE {<<x>> \o s : x \in S, s \in SeqsOfLen(S, n - 1)}

SeqsUpTo(S, n) == UNION {SeqsOfLen(S, k) : k \in 0..n}

\* a list-valued key holding exactly n elements; with n = 0 the key is
\* absent or holds the empty list
ListKey(S, n) ==
    IF n = 0 THEN {<<>>, << <<>> >>} ELSE {<<s>> : s \in SeqsOfLen(S, n)}

EvidenceIds == {"evid:x", "evid:y"}

Flags == {<<"trademark", "high">>, <<"meme_derivative", "medium">>,
          <<"jurisdiction", "low">>}

Confidences == {"low", "medium", "high"}

\* characters and factions: optional id, name and evidence_id
Entities ==
    [id : Opt({"e1"}), name : Opt({"n1"}), evidence_id : Opt({""} \cup EvidenceIds)]

\* per-asset entries of asset_clearances / assets_used
Assets ==
    [evidence_id : Opt({"evid:x"}),
     risk_flags : {<<>>, << <<<<"trademark", "high">>>> >>,
                   << <<<<"meme_derivative", "medium">>>> >>,
                   << <<<<"meme_derivative", "medium">>, <<"trademark", "high">>>> >>}]

PlainAssets == [evidence_id : Opt(EvidenceIds), risk_flags : {<<>>}]

TitleOnlyWb == [EmptyWb EXCEPT !.title = <<"Untitled">>]

Refusal == [reason |-> "r", closest_possible |-> "c", corpus_gap |-> "g"]

Doc(r, wb, cm) == [refusal |-> r, world_bible |-> wb, compliance_manifest |-> cm]

Start(d) ==
    /\ world_json = d
    /\ data = d
    /\ calls = 0
    /\ errors = <<>>
    /\ first_errors = <<>>
    /\ locals = NoLocals

\* any shape: refusal or not, each section absent, empty or small
InitShape ==
    \E r \in Opt({Refusal}), t \in Opt({"Untitled"}),
       c \in {<<>>} \cup {<< s >> : s \in SeqsUpTo(Entities, 1)},
       conf \in Opt(Confidences),
       uf \in {<<>>} \cup {<< s >> : s \in SeqsUpTo(Flags, 1)},
       eu \in {<<>>} \cup {<< s >> : s \in SeqsUpTo(EvidenceIds, 1)} :
      \E wb \in Opt({[title |-> t, characters |-> c, factions |-> <<>>]}),
         cm \in Opt({[EmptyCm EXCEPT !.commercial_confidence = conf,
                                     !.unsuppressed_flags = uf,
                                     !.evidence_used = eu]}) :
         Start(Doc(r, wb, cm))

\* Rules 2 and 3: characters, factions and the three declared-evidence fields
InitEvidence ==
    \E nc \in 0..MaxItems :
    \E nf \in 0..(MaxItems - nc) :
    \E ne \in 0..(MaxItems - nc - nf) :
    \E na \in 0..(MaxItems - nc - nf - ne) :
    \E nu \in 0..(MaxItems - nc - nf - ne - na) :
    \E c \in ListKey(Entities, nc), f \in ListKey(Entities, nf),
       eu \in ListKey(EvidenceIds, ne),
       ac \in ListKey(PlainAssets, na), au \in ListKey(PlainAssets, nu),
       conf \in {<<"high">>} :
       Start(Doc(<<>>,
                 <<[title |-> <<"Untitled">>, characters |-> c, factions |-> f]>>,
                 <<[EmptyCm EXCEPT !.evidence_used = eu, !.asset_clearances = ac,
                                   !.assets_used = au,
                                   !.commercial_confidence = conf]>>))

\* Rule 4: manifest-level flags, per-asset flags, clearances, stated confidence
InitConfidence ==
    \E nu \in 0..MaxItems :
    \E nr \in 0..(MaxItems - nu) :
    \E na \in 0..(MaxItems - nu - nr) :
    \E ns \in 0..(MaxItems - nu - nr - na) :
    \E uf \in ListKey(Flags, nu), rf \in ListKey(Flags, nr),
       ac \in ListKey(Assets, na), au \in ListKey(Assets, ns),
       eu \in {<<>>, << <<"evid:x">> >>},
       conf \in Opt(Confidences), mark \in Opt({TRUE}) :
       Start(Doc(<<>>, <<TitleOnlyWb>>,
                 <<[EmptyCm EXCEPT !.unsuppressed_flags = uf, !.risk_flags = rf,
                                   !.asset_clearances = ac, !.assets_used = au,
                                   !.evidence_used = eu,
                                   !.commercial_confidence = conf,
                                   !.confidence_corrected = mark,
                                   !.rationale = <<"because">>]>>))

\* the web server has fetched nothing while a document is validated
IdleWeb ==
    /\ returncode = 0
    /\ printed = <<>>
    /\ stdout = <<>>
    /\ decoded = <<>>
    /\ generations = <<>>
    /\ rows = <<>>
    /\ last_generated_at = <<>>
    /\ served = {}

\* no worldkit_mint call has been made
NoMintCall ==
    [wallet |-> "", payment_tx |-> <<>>, paid |-> FALSE,
     response |-> "", steps |-> <<>>, minted |-> FALSE]

IdleMint ==
    /\ used_payment_txs = {}
    /\ mints = <<>>
    /\ mint_call = NoMintCall
    /\ mint_calls = 0

\* no generation request has reached the web server
NoEvent == [type |-> "", message |-> "", world_id |-> <<>>, is_refusal |-> FALSE]

NoPost == [endpoint |-> "", prompt |-> <<>>, code |-> 0, day |-> 0]

\* no job has been looked up
NoLookup == [endpoint |-> "", code |-> 0, job_id |-> 0, body |-> <<>>]

IdleJobs ==
    /\ jobs = <<>>
    /\ daily_counter = <<>>
    /\ today = 1
    /\ clock = 0
    /\ requests = 0
    /\ accepted = <<>>
    /\ tasks = <<>>
    /\ streams = <<>>
    /\ worlds = <<>>
    /\ refusal_log = <<>>
    /\ stream_event = NoEvent
    /\ post_response = NoPost
    /\ status_response = NoLookup

Init == IdleWeb /\ IdleMint /\ IdleJobs /\ (InitShape \/ InitEvidence \/ InitConfidence)

(***************************************************************************)
(* The calls.                                                              *)
(***************************************************************************)
\* variant: validate_world(params.world_json), without the deep copy
ValidateInPlace ==
    /\ calls = 0
    /\ LET r == validate_world(data)
       IN  /\ data' = r.data
           /\ world_json' = r.data
           /\ errors' = r.errors
           /\ first_errors' = r.errors
           /\ locals' = r.locals
    /\ calls' = 1
    /\ UNCHANGED <<returncode, printed, stdout, decoded, generations, rows,
                   last_generated_at, served>>
    /\ UNCHANGED mintVars
    /\ UNCHANGED jobVars

\* errors = validate_world(world) on the fresh copy
Validate ==
    /\ calls = 0
    /\ LET r == validate_world(data)
       IN  /\ data' = r.data
           /\ errors' = r.errors
           /\ first_errors' = r.errors
           /\ locals' = r.locals
    /\ calls' = 1
    /\ UNCHANGED world_json
    /\ UNCHANGED <<returncode, printed, stdout, decoded, generations, rows,
                   last_generated_at, served>>
    /\ UNCHANGED mintVars
    /\ UNCHANGED jobVars

\* a second call on the same, now corrected, document
Revalidate ==
    /\ calls = 1
    /\ LET r == validate_world(data)
       IN  /\ data' = r.data
           /\ errors' = r.errors
           /\ locals' = r.locals
    /\ calls' = 2
    /\ UNCHANGED <<world_json, first_errors>>
    /\ UNCHANGED <<returncode, printed, stdout, decoded, generations, rows,
                   last_generated_at, served>>
    /\ UNCHANGED mintVars
    /\ UNCHANGED jobVars

Next == Validate \/ Revalidate

Spec == Init /\ [][Next]_vars

\* a second cc0_validate_world call with the same params.world_json: a fresh
\* deep copy is validated
CallAgain ==
    /\ calls = 1
    /\ LET r == validate_world(world_json)
       IN  /\ data' = r.data
           /\ errors' = r.errors
           /\ locals' = r.locals
    /\ calls' = 2
    /\ UNCHANGED <<world_json, first_errors>>
    /\ UNCHANGED <<returncode, printed, stdout, decoded, generations, rows,
                   last_generated_at, served>>
    /\ UNCHANGED mintVars
    /\ UNCHANGED jobVars

\* the value cc0_validate_world dumps, after the latest call
ToolResult == [valid |-> Len(errors) = 0, warnings |-> errors, world |-> data]

NextTool == Validate \/ CallAgain

SpecTool == Init /\ [][NextTool]_vars

(***************************************************************************)
(* The on-chain history decoder (src/src/web_server.py,                    *)
(* _parse_cast_generation_output) and its two consumers, manifests_page    *)
(* and manifests_json.                                                     *)
(*                                                                         *)
(* A Python str is the sequence of its characters, each a one-character    *)
(* string: "[(1" is <<"[", "(", "1">>.  The characters that occur are the  *)
(* delimiters [ ] ( ) , " the blank, the sign -, digits and a few letters. *)
(***************************************************************************)
Quote == "\""

Digits == <<"0", "1", "2", "3", "4", "5", "6", "7", "8", "9">>

IsDigit(ch) == \E i \in DOMAIN Digits : Digits[i] = ch

DigitValue(ch) == (CHOOSE i \in DOMAIN Digits : Digits[i] = ch) - 1

\* str.lstrip(), str.rstrip(), str.strip(): the blank is the only whitespace
RECURSIVE LStrip(_)
LStrip(s) == IF s # <<>> /\ Head(s) = " " THEN LStrip(Tail(s)) ELSE s

RECURSIVE RStrip(_)
RStrip(s) ==
    IF s # <<>> /\ s[Len(s)] = " " THEN RStrip(SubSeq(s, 1, Len(s) - 1)) ELSE s

Strip(s) == RStrip(LStrip(s))

\* str.strip('"'): every leading and every trailing double quote
RECURSIVE LStripQuotes(_)
LStripQuotes(s) == IF s # <<>> /\ Head(s) = Quote THEN LStripQuotes(Tail(s)) ELSE s

RECURSIVE RStripQuotes(_)
RStripQuotes(s) ==
    IF s # <<>> /\ s[Len(s)] = Quote
       THEN RStripQuotes(SubSeq(s, 1, Len(s) - 1)) ELSE s

StripQuotes(s) == RStripQuotes(LStripQuotes(s))

\* s.startswith(ch), s.endswith(ch) for a one-character ch
StartsWithChar(s, ch) == s # <<>> /\ Head(s) = ch
EndsWithChar(s, ch)   == s # <<>> /\ s[Len(s)] = ch

\* s.split(","): always at least one piece, empty pieces kept
RECURSIVE SplitScan(_, _, _)
SplitScan(s, pieces, cur) ==
    IF s = <<>> THEN Append(pieces, cur)
    ELSE IF Head(s) = "," THEN SplitScan(Tail(s), Append(pieces, cur), <<>>)
    ELSE SplitScan(Tail(s), pieces, Append(cur, Head(s)))

Split(s) == SplitScan(s, <<>>, <<>>)

\* the value of a run of decimal digits
RECURSIVE DigitsValue(_, _)
DigitsValue(s, acc) ==
    IF s = <<>> THEN acc ELSE DigitsValue(Tail(s), 10 * acc + DigitValue(Head(s)))

AllDigits(s) == s # <<>> /\ \A i \in DOMAIN s : IsDigit(s[i])

\* int(s): <<n>> when s, stripped, is an optionally signed run of digits,
\* <<>> when int(s) raises ValueError
ParseInt(s) ==
    LET t == Strip(s)
        signed == t # <<>> /\ Head(t) \in {"-", "+"}
        body == IF signed THEN Tail(t) ELSE t
    IN  IF ~AllDigits(body) THEN <<>>
        ELSE IF signed /\ Head(t) = "-" THEN << 0 - DigitsValue(body, 0) >>
        ELSE << DigitsValue(body, 0) >>

\* str(n) for an int n
RECURSIVE NatToStr(_)
NatToStr(n) == IF n < 10 THEN << Digits[n + 1] >>
               ELSE Append(NatToStr(n \div 10), Digits[(n % 10) + 1])

IntToStr(n) == IF n < 0 THEN <<"-">> \o NatToStr(0 - n) ELSE NatToStr(n)

\* _tokenise: one step of the scan over the characters of a tuple body
TokenStep(st, ch) ==
    IF ch = Quote /\ st.depth = 0
        THEN [st EXCEPT !.in_str = ~@, !.cur = Append(@, ch)]
    ELSE IF st.in_str
        THEN [st EXCEPT !.cur = Append(@, ch)]
    ELSE IF ch \in {"(", "["}
        THEN [st EXCEPT !.depth = @ + 1, !.cur = Append(@, ch)]
    ELSE IF ch \in {")", "]"}
        THEN [st EXCEPT !.depth = @ - 1, !.cur = Append(@, ch)]
    ELSE IF ch = "," /\ st.depth = 0
        THEN [st EXCEPT !.tokens = Append(@, Strip(st.cur)), !.cur = <<>>]
    ELSE [st EXCEPT !.cur = Append(@, ch)]

\* "for ch in s": the scan state after the characters lo..hi of s, entered
\* in scan state st.  The range is scanned in two halves; mid is the state
\* between them, bound to its value before the second half is scanned.
RECURSIVE TokenScan(_, _, _, _)
TokenScan(s, lo, hi, st) ==
    IF lo > hi THEN st
    ELSE IF lo = hi THEN TokenStep(st, s[lo])
    ELSE CHOOSE after \in {TokenScan(s, ((lo + hi) \div 2) + 1, hi, mid) :
                              mid \in {TokenScan(s, lo, (lo + hi) \div 2, st)}} : TRUE

\* _tokenise(s): the top-level, quote-aware comma split of a tuple body
tokenise(s) ==
    LET st == TokenScan(s, 1, Len(s), [tokens |-> <<>>, depth |-> 0, cur |-> <<>>,
                                    in_str |-> FALSE])
    IN  IF st.cur # <<>> THEN Append(st.tokens, Strip(st.cur)) ELSE st.tokens

\* inner: raw without a leading "[" and without a trailing "]"
StripOuterBrackets(raw) ==
    LET a == IF StartsWithChar(raw, "[") THEN Tail(raw) ELSE raw
    IN  IF EndsWithChar(a, "]") THEN SubSeq(a, 1, Len(a) - 1) ELSE a

\* one step of the scan that cuts inner into tuple strings
TupleStep(st, ch) ==
    IF ch \in {"(", "["}
        THEN [st EXCEPT !.depth = @ + 1, !.cur = Append(@, ch)]
    ELSE IF ch \in {")", "]"}
        THEN IF st.depth - 1 = 0
                THEN [st EXCEPT !.depth = 0, !.cur = <<>>,
                                !.tuple_strings = Append(@, Strip(Append(st.cur, ch)))]
                ELSE [st EXCEPT !.depth = @ - 1, !.cur = Append(@, ch)]
    ELSE IF ch = "," /\ st.depth = 0
        THEN st
    ELSE IF st.depth > 0 THEN [st EXCEPT !.cur = Append(@, ch)] ELSE st

\* "for ch in inner": the scan state after the characters lo..hi of s,
\* entered in scan state st, in two halves as in TokenScan
RECURSIVE TupleScan(_, _, _, _)
TupleScan(s, lo, hi, st) ==
    IF lo > hi THEN st
    ELSE IF lo = hi THEN TupleStep(st, s[lo])
    ELSE CHOOSE after \in {TupleScan(s, ((lo + hi) \div 2) + 1, hi, mid) :
                              mid \in {TupleScan(s, lo, (lo + hi) \div 2, st)}} : TRUE

\* tuple_strings once the scan is over
TupleStrings(inner) ==
    TupleScan(inner, 1, Len(inner),
              [tuple_strings |-> <<>>, depth |-> 0, cur |-> <<>>]).tuple_strings

\* ts without its enclosing parentheses, when it has both
StripOuterParens(ts) ==
    IF StartsWithChar(ts, "(") /\ EndsWithChar(ts, ")")
       THEN SubSeq(ts, 2, Len(ts) - 1) ELSE ts

\* "if len(fields) < 10: continue"
TooFewFieldsNever(fields) == FALSE

TooFewFields(fields) == Len(fields) < 10

\* the universes list of field 5
UniversesKeepBlank(field5) ==
    LET r == Strip(field5)
        universes_raw == IF StartsWithChar(r, "[") /\ EndsWithChar(r, "]")
                            THEN SubSeq(r, 2, Len(r) - 1) ELSE r
        pieces == Split(universes_raw)
    IN  [i \in DOMAIN pieces |-> StripQuotes(Strip(pieces[i]))]

Universes(field5) ==
    LET r == Strip(field5)
        universes_raw == IF StartsWithChar(r, "[") /\ EndsWithChar(r, "]")
                            THEN SubSeq(r, 2, Len(r) - 1) ELSE r
        pieces == Split(universes_raw)
    IN  SelectSeq2([i \in DOMAIN pieces |-> StripQuotes(Strip(pieces[i]))],
                   [i \in DOMAIN pieces |-> Strip(pieces[i]) # <<>>])

\* conf_val: int(fields[6]), 0 when that raises
ConfVal(field6) == Get(ParseInt(field6), 0)

\* conf_map.get(conf_val, str(conf_val))
ConfMapLowDefault(conf_val) ==
    IF conf_val = 1 THEN <<"m","e","d","i","u","m">>
    ELSE IF conf_val = 2 THEN <<"h","i","g","h">>
    ELSE <<"l","o","w">>

ConfMap(conf_val) ==
    IF conf_val = 0 THEN <<"l","o","w">>
    ELSE IF conf_val = 1 THEN <<"m","e","d","i","u","m">>
    ELSE IF conf_val = 2 THEN <<"h","i","g","h">>
    ELSE IntToStr(conf_val)

\* fields[i] of the Python list (0-based) when the guard "len(fields) > i" holds
FieldOr(fields, i, default) == IF Len(fields) > i THEN fields[i + 1] ELSE default

\* gen = {...}
Generation(fields) ==
    [token_id              |-> Strip(fields[1]),
     generator_address     |-> Strip(fields[2]),
     world_bible_hash      |-> Strip(fields[3]),
     manifest_hash         |-> Strip(fields[4]),
     ipfs_cid              |-> StripQuotes(Strip(fields[5])),
     universes_used        |-> Universes(fields[6]),
     commercial_confidence |-> ConfMap(ConfVal(FieldOr(fields, 6, <<>>))),
     block_height          |-> Strip(FieldOr(fields, 8, <<>>)),
     timestamp             |-> Strip(FieldOr(fields, 9, <<>>))]

\* the fields of one tuple string
Fields(ts) == tokenise(StripOuterParens(ts))

\* an IndexError at fields[5] or fields[0..4], the only unguarded subscripts
IndexError(fields) == ~TooFewFields(fields) /\ Len(fields) < 6

\* the loop over tuple_strings from the i-th on: the generations appended
RECURSIVE DecodeTuples(_, _)
DecodeTuples(tuple_strings, i) ==
    IF i > Len(tuple_strings) THEN <<>>
    ELSE IF TooFewFields(Fields(tuple_strings[i]))
        THEN DecodeTuples(tuple_strings, i + 1)
    ELSE <<Generation(Fields(tuple_strings[i]))>> \o DecodeTuples(tuple_strings, i + 1)

\* the outcome of the loop: the list built, unless some tuple raised
Decoded(tuple_strings) ==
    IF \E i \in DOMAIN tuple_strings : IndexError(Fields(tuple_strings[i]))
       THEN [raised |-> TRUE, value |-> <<>>]
       ELSE [raised |-> FALSE, value |-> DecodeTuples(tuple_strings, 1)]

\* _parse_cast_generation_output(stdout): the list returned, or raised
parse_cast_generation_output(out) ==
    LET raw == Strip(out)
    IN  IF raw = <<>> \/ raw = <<"[", "]">>
           THEN [raised |-> FALSE, value |-> <<>>]
           ELSE Decoded(TupleStrings(StripOuterBrackets(raw)))

\* the decoder call of _fetch_generation_history: none (<<>>) when cast
\* failed, else the outcome of _parse_cast_generation_output(result.stdout)
DecoderCall(rc, out) ==
    IF rc # 0 THEN <<>> ELSE << parse_cast_generation_output(out) >>

\* _fetch_generation_history: [] when cast failed or the decoder raised
FetchGenerationHistory(call) ==
    IF call = <<>> THEN <<>>
    ELSE IF call[1].raised THEN <<>> ELSE call[1].value

\* a cell of the "timestamp" column: a formatted date or a literal text
DateCell(ts_int) == [kind |-> "date", ts |-> ts_int, text |-> <<>>]
TextCell(text)   == [kind |-> "text", ts |-> 0, text |-> text]

\* the placeholder the page prints for an unknown value: the one-character
\* text U+2014 (em dash), written here by its name
Placeholder == TextCell(<<"EM DASH">>)

\* manifests_page: ts_display of one generation
TsDisplayPlaceholderOnly(ts_raw) ==
    LET ts_int == IF ts_raw # <<>> THEN ParseInt(ts_raw) ELSE <<0>>
    IN  IF ts_int = <<>> THEN Placeholder
        ELSE IF ts_int[1] > 0 THEN DateCell(ts_int[1]) ELSE Placeholder

TsDisplay(ts_raw) ==
    LET ts_int == IF ts_raw # <<>> THEN ParseInt(ts_raw) ELSE <<0>>
    IN  IF ts_int = <<>>
           THEN (IF ts_raw # <<>> THEN TextCell(ts_raw) ELSE Placeholder)
        ELSE IF ts_int[1] > 0 THEN DateCell(ts_int[1]) ELSE Placeholder

\* manifests_page: the timestamp cells of the generation log, one per row;
\* no log at all ("if not generations") when there is no generation
Rows(gens) ==
    IF gens = <<>> THEN <<>>
    ELSE [i \in 1..Len(gens) |-> TsDisplay(gens[i].timestamp)]

\* manifests_json: int(g.get("timestamp", 0) or 0), <<>> when it raises
TimestampOf(g) == IF g.timestamp # <<>> THEN ParseInt(g.timestamp) ELSE <<0>>

\* manifests_json: the running maximum of the parseable timestamps, over
\* the generations from the i-th on
RECURSIVE LastGeneratedAt(_, _, _)
LastGeneratedAt(gens, i, last) ==
    IF i > Len(gens) THEN last
    ELSE LastGeneratedAt(gens, i + 1,
             IF TimestampOf(gens[i]) # <<>> /\ TimestampOf(gens[i])[1] > last
                THEN TimestampOf(gens[i])[1] ELSE last)

\* payload["last_generated_at"]: None is <<>>
PayloadLastGeneratedAt(gens) ==
    LET last == LastGeneratedAt(gens, 1, 0) IN IF last > 0 THEN <<last>> ELSE <<>>

(***************************************************************************)
(* What the chain returns: the generation tuples `cast call` prints, and   *)
(* the ways a printed tuple reaches the decoder damaged.                   *)
(***************************************************************************)
\* a tuple of the registry's generationHistory: the string fields by their
\* content, the numbers by the text printed for them
Entry(id, cid, universes, conf, ts) ==
    [token_id |-> id, generator_address |-> <<"0", "x", "a">>,
     world_bible_hash |-> <<"0", "x", "b">>, manifest_hash |-> <<"0", "x", "c">>,
     ipfs_cid |-> cid, universes |-> universes, confidence |-> conf,
     block_height |-> <<"9">>, timestamp |-> ts]

RECURSIVE Join(_, _)
Join(pieces, sep) ==
    IF pieces = <<>> THEN <<>>
    ELSE IF Len(pieces) = 1 THEN pieces[1]
    ELSE pieces[1] \o sep \o Join(Tail(pieces), sep)

Quoted(s) == <<Quote>> \o s \o <<Quote>>

\* the ten fields of a tuple as cast prints them
PrintedFields(e, sep) ==
    <<e.token_id, e.generator_address, e.world_bible_hash, e.manifest_hash,
      Quoted(e.ipfs_cid),
      <<"[">> \o Join([i \in DOMAIN e.universes |-> Quoted(e.universes[i])], sep) \o <<"]">>,
      e.confidence, <<"[", "]">>, e.block_height, e.timestamp>>

PrintedTuple(e, sep) == <<"(">> \o Join(PrintedFields(e, sep), sep) \o <<")">>

\* a printed tuple as it reaches the decoder
\*   "tuple"    intact
\*   "short"    its last field lost (nine fields)
\*   "cut"      truncated after its first keep characters
\*   "open"     a stray "[" in place of the "[]" of field 7
\*   "close"    a stray ")" after the tuple
Damaged(e, sep, shape) ==
    LET text == PrintedTuple(e, sep)
        f == PrintedFields(e, sep)
    IN  CASE shape.kind = "tuple" -> text
          [] shape.kind = "short" ->
                <<"(">> \o Join(SubSeq(f, 1, 9), sep) \o <<")">>
          [] shape.kind = "cut"   -> SubSeq(text, 1, shape.keep)
          [] shape.kind = "open"  ->
                <<"(">> \o Join([f EXCEPT ![8] = <<"[">>], sep) \o <<")">>
          [] shape.kind = "close" -> text \o <<")">>

Intact == [kind |-> "tuple", keep |-> 0]

\* the whole output: the printed pieces inside the array brackets
\*   "array"   as printed;  "padded"  with surrounding blanks;
\*   "bare"    the array brackets lost
Wrapped(body, wrapper) ==
    CASE wrapper = "array"  -> <<"[">> \o body \o <<"]">>
      [] wrapper = "padded" -> <<" ", "[">> \o body \o <<"]", " ">>
      [] wrapper = "bare"   -> body

Wrappers == {"array", "padded", "bare"}

Separators == {<<",">>, <<",", " ">>}

Output(pieces, sep, wrapper) ==
    Wrapped(Join([i \in DOMAIN pieces |-> Damaged(pieces[i].entry, sep, pieces[i].shape)],
                 sep), wrapper)

(***************************************************************************)
(* Bounds of the explored chain outputs.                                   *)
(***************************************************************************)
\* number of tuples in the printed array
MaxTuples == 2

\* number of elements in a tuple's universes array
MaxUniverses == 2

\* contents of the storage-CID string, with delimiters inside
Cids ==
    {<<"c">>, <<"c", ",", "d">>, <<"c", "(", "d", ")">>, <<"c", ")", "d">>,
     <<"c", "[", "d">>, <<>>}

\* contents of a universes element
UniverseIds == {<<"u">>, <<"v">>, <<>>}

\* texts found in place of the confidence code
ConfTexts ==
    {<<"0">>, <<"1">>, <<"2">>, <<"7">>, <<"0", "7">>, <<"-", "1">>, <<"x">>, <<>>}

\* texts found in place of the timestamp; the last is cast's annotated form
TsTexts ==
    {<<"5">>, <<"0">>, <<>>, <<"x">>, <<"-", "5">>, <<"1", "2">>,
     <<"5", " ", "[", "5", "e", "0", "]">>}

\* the i-th plain tuple of a history
PlainEntry(i) == Entry(IntToStr(i), <<"c">>, << <<"u">> >>, <<"2">>, IntToStr(i))

\* the ways the tuple e can be damaged
Shapes(e, sep) ==
    {[kind |-> k, keep |-> 0] : k \in {"short", "open", "close"}}
        \cup {[kind |-> "cut", keep |-> n] : n \in 0..(Len(PrintedTuple(e, sep)) - 1)}

\* nothing decoded, nothing served yet, for the chain output out
StartWeb(rc, pieces, out) ==
    /\ returncode = rc
    /\ printed = pieces
    /\ stdout = out
    /\ decoded = <<>>
    /\ generations = <<>>
    /\ rows = <<>>
    /\ last_generated_at = <<>>
    /\ served = {}

\* one intact tuple: every CID and every universes array
InitFields ==
    \E cid \in Cids, us \in SeqsUpTo(UniverseIds, MaxUniverses),
       sep \in Separators, w \in Wrappers :
       LET pieces == << [entry |-> Entry(<<"1">>, cid, us, <<"2">>, <<"5">>),
                         shape |-> Intact] >>
       IN  StartWeb(0, pieces, Output(pieces, sep, w))

\* intact tuples: every confidence text, every timestamp text
InitCodes ==
    \/ \E conf \in ConfTexts, ts \in TsTexts :
          LET pieces == << [entry |-> Entry(<<"1">>, <<"c">>, <<>>, conf, ts),
                            shape |-> Intact] >>
          IN  StartWeb(0, pieces, Output(pieces, <<",", " ">>, "array"))
    \/ \E n \in 2..MaxTuples : \E tss \in SeqsOfLen(TsTexts, n) :
          LET pieces == [i \in 1..n |->
                            [entry |-> Entry(IntToStr(i), <<"c">>, <<>>, <<"1">>, tss[i]),
                             shape |-> Intact]]
          IN  StartWeb(0, pieces, Output(pieces, <<",">>, "array"))

\* plain tuples, at most one of them damaged
InitDamage ==
    \E n \in 0..MaxTuples, sep \in Separators, w \in Wrappers :
       \/ LET pieces == [i \in 1..n |-> [entry |-> PlainEntry(i), shape |-> Intact]]
          IN  StartWeb(0, pieces, Output(pieces, sep, w))
       \/ \E p \in 1..n : \E sh \in Shapes(PlainEntry(p), sep) :
             LET pieces == [i \in 1..n |->
                               [entry |-> PlainEntry(i),
                                shape |-> IF i = p THEN sh ELSE Intact]]
             IN  StartWeb(0, pieces, Output(pieces, sep, w))

\* cast failed (nothing printed), or printed something that is no array
InitFailed ==
    \/ StartWeb(1, <<>>, <<>>)
    \/ \E out \in {<<"x">>, <<" ">>, <<"[">>, <<"(", ")">>} : StartWeb(0, <<>>, out)

InitWeb ==
    /\ Start(Doc(<<>>, <<>>, <<>>))
    /\ IdleMint
    /\ IdleJobs
    /\ (InitFields \/ InitCodes \/ InitDamage \/ InitFailed)

(***************************************************************************)
(* The handlers.                                                           *)
(***************************************************************************)
\* _fetch_token_data: result["generations"] = _fetch_generation_history(...)
\* with call the decoder call it makes
Fetch(name, call) ==
    /\ decoded' = call
    /\ generations' = FetchGenerationHistory(call)
    /\ served' = served \cup {name}
    /\ UNCHANGED <<returncode, printed, stdout>>
    /\ UNCHANGED <<world_json, data, calls, errors, first_errors, locals>>
    /\ UNCHANGED mintVars
    /\ UNCHANGED jobVars

\* GET /worldkit/{token_id}
WorldkitPage ==
    \E call \in {DecoderCall(returncode, stdout)} :
        /\ Fetch("worldkit_page", call)
        /\ UNCHANGED <<rows, last_generated_at>>

\* GET /manifests/{token_id}
ManifestsPage ==
    \E call \in {DecoderCall(returncode, stdout)} :
        /\ Fetch("manifests_page", call)
        /\ rows' = Rows(FetchGenerationHistory(call))
        /\ UNCHANGED last_generated_at

\* GET /manifests/{token_id}.json
ManifestsJson ==
    \E call \in {DecoderCall(returncode, stdout)} :
        /\ Fetch("manifests_json", call)
        /\ last_generated_at' = PayloadLastGeneratedAt(FetchGenerationHistory(call))
        /\ UNCHANGED rows

NextWeb == WorldkitPage \/ ManifestsPage \/ ManifestsJson

SpecWeb == InitWeb /\ [][NextWeb]_vars

(***************************************************************************)
(* The mint tool (src/src/mcp_server.py, worldkit_mint) and its replay     *)
(* guard, the process-wide set _used_payment_txs.  A call has no await in  *)
(* its body: on the event loop it runs from its first statement to its     *)
(* return without another call in between.                                 *)
(***************************************************************************)
\* str.lower() on the characters a hash is written with
LowerChar(ch) ==
    CASE ch = "A" -> "a"
      [] ch = "B" -> "b"
      [] ch = "X" -> "x"
      [] ch = "N" -> "n"
      [] ch = "C" -> "c"
      [] OTHER    -> ch

Lower(s) == [i \in DOMAIN s |-> LowerChar(s[i])]

\* len(tx_hash_norm) != 66
HashLen == 66

\* "not tx_hash_norm.startswith('0x') or len(tx_hash_norm) != 66"
InvalidPaymentTx(tx_hash_norm) ==
    \/ ~(Len(tx_hash_norm) >= 2 /\ SubSeq(tx_hash_norm, 1, 2) = <<"0", "x">>)
    \/ Len(tx_hash_norm) # HashLen

\* the wallet strings tried; Web3.is_address accepts the first two
Wallets == {"0xW1", "0xW2", "not-an-address"}

IsAddress(wallet) == wallet \in {"0xW1", "0xW2"}

\* the result of a call: the response returned, the replay guard it leaves,
\* the chain operations it attempted, in order, and whether it minted
MintResult(response, used, steps, minted) ==
    [response |-> response, used |-> used, steps |-> steps, minted |-> minted]

\* steps 5 to 9: mark the hash used, mint, roll back where the code does.
\* A missing BACKEND_SIGNER_KEY and a RuntimeError of _get_contracts are
\* raised outside the inner try and reach the outer "except Exception".
MintAgent(used, tx_hash_norm, env) ==
    LET marked == used \cup {tx_hash_norm}
    IN  IF env.minter_key = "" \/ ~env.contracts
           THEN MintResult("exception", marked, <<"receipt">>, FALSE)
        ELSE IF env.mint = "raise"
           THEN MintResult("mint_failed", marked \ {tx_hash_norm},
                           <<"receipt", "mint">>, FALSE)
        ELSE IF env.mint = "reverted"
           THEN MintResult("mint_reverted", marked \ {tx_hash_norm},
                           <<"receipt", "mint">>, FALSE)
        ELSE IF ~env.token_id
           THEN MintResult("no_token_id", marked, <<"receipt", "mint">>, TRUE)
        ELSE MintResult("minted", marked, <<"receipt", "mint">>, TRUE)

\* steps 3 and 4: the receipt and its USDC transfer
VerifyPayment(used, tx_hash_norm, env) ==
    IF env.receipt = "raise"
        THEN MintResult("receipt_error", used, <<"receipt">>, FALSE)
    ELSE IF env.receipt = "none"
        THEN MintResult("not_found", used, <<"receipt">>, FALSE)
    ELSE IF env.receipt = "reverted"
        THEN MintResult("payment_reverted", used, <<"receipt">>, FALSE)
    ELSE IF ~env.addresses
        THEN MintResult("missing_env", used, <<"receipt">>, FALSE)
    ELSE IF env.receipt = "no_transfer"
        THEN MintResult("no_transfer", used, <<"receipt">>, FALSE)
    ELSE MintAgent(used, tx_hash_norm, env)

\* variant: no "if tx_hash_norm in _used_payment_txs"
worldkit_mint_no_replay_check(used, wallet, payment_tx, env) ==
    IF ~IsAddress(wallet) THEN MintResult("invalid_wallet", used, <<>>, FALSE)
    ELSE IF InvalidPaymentTx(Lower(payment_tx))
        THEN MintResult("invalid_payment_tx", used, <<>>, FALSE)
    ELSE VerifyPayment(used, Lower(payment_tx), env)

\* worldkit_mint(params) with the replay guard holding used
worldkit_mint(used, wallet, payment_tx, env) ==
    IF ~IsAddress(wallet) THEN MintResult("invalid_wallet", used, <<>>, FALSE)
    ELSE IF InvalidPaymentTx(Lower(payment_tx))
        THEN MintResult("invalid_payment_tx", used, <<>>, FALSE)
    ELSE IF Lower(payment_tx) \in used
        THEN MintResult("already_used", used, <<>>, FALSE)
    ELSE VerifyPayment(used, Lower(payment_tx), env)

(***************************************************************************)
(* The explored calls.                                                     *)
(***************************************************************************)
\* number of worldkit_mint calls in a run
MaxMintCalls == 3

Hash(prefix, ch) == prefix \o [i \in 1..(HashLen - 2) |-> ch]

\* two payments, the first also written in upper case, and two strings that
\* are no hash
PaymentTxs ==
    {Hash(<<"0", "x">>, "a"), Hash(<<"0", "X">>, "A"), Hash(<<"0", "x">>, "b"),
     Hash(<<"0", "x">>, "a") \o <<"a">>, Hash(<<"a", "a">>, "a")}

\* what the chain and the process environment answer during one call
Env(receipt, addresses, minter_key, contracts, mint, token_id) ==
    [receipt |-> receipt, addresses |-> addresses, minter_key |-> minter_key,
     contracts |-> contracts, mint |-> mint, token_id |-> token_id]

\* the answers that differ up to the one that ends the call: the receipt,
\* the USDC and treasury addresses, BACKEND_SIGNER_KEY, the contract
\* addresses, the mintAgent transaction, totalMinted()
Envs ==
    {Env(receipt, TRUE, "key", TRUE, "ok", TRUE) :
        receipt \in {"raise", "none", "reverted", "no_transfer", "paid"}}
    \cup {Env("paid", FALSE, "key", TRUE, "ok", TRUE),
          Env("paid", TRUE, "", TRUE, "ok", TRUE),
          Env("paid", TRUE, "key", FALSE, "ok", TRUE),
          Env("paid", TRUE, "key", TRUE, "raise", TRUE),
          Env("paid", TRUE, "key", TRUE, "reverted", TRUE),
          Env("paid", TRUE, "key", TRUE, "ok", FALSE)}

InitMint ==
    /\ Start(Doc(<<>>, <<>>, <<>>))
    /\ IdleWeb
    /\ IdleMint
    /\ IdleJobs

\* one worldkit_mint call, from its first statement to its return
MintCall ==
    /\ mint_calls < MaxMintCalls
    /\ \E wallet \in Wallets, payment_tx \in PaymentTxs, env \in Envs :
          LET r == worldkit_mint(used_payment_txs, wallet, payment_tx, env)
          IN  /\ used_payment_txs' = r.used
              /\ mints' = IF r.minted
                             THEN Append(mints, [payment_tx |-> payment_tx,
                                                 wallet |-> wallet])
                             ELSE mints
              /\ mint_call' = [wallet |-> wallet, payment_tx |-> payment_tx,
                               paid |-> env.receipt = "paid" /\ env.addresses,
                               response |-> r.response, steps |-> r.steps,
                               minted |-> r.minted]
    /\ mint_calls' = mint_calls + 1
    /\ UNCHANGED <<validatorVars, webVars, jobVars>>

NextMint == MintCall

SpecMint == InitMint /\ [][NextMint]_vars

(***************************************************************************)
(* The web server's generation endpoints (src/src/web_server.py): the      *)
(* daily counter, the in-memory job store, the background task             *)
(* run_generation and the event stream of /api/generate-stream, with the   *)
(* output step of src/src/generate.py.  The three POST handlers are        *)
(* coroutines without an await before they return: each runs on the event  *)
(* loop from its first statement to its return.  run_generation runs in a  *)
(* thread of the pool, statement by statement beside the handlers.         *)
(***************************************************************************)
\* the generations accepted per day, explored with a small limit
DAILY_GENERATION_LIMIT == 1

\* len(prompt) > 300
MaxPromptLen == 300

\* text[:40]
SlugLen == 40

\* _daily_counter.get(today, 0)
get_daily_count(counter, day) == IF day \in DOMAIN counter THEN counter[day] ELSE 0

\* _daily_counter[today] = ... + 1, then every other day deleted
increment_daily_count(counter, day) ==
    [d \in {day} |-> get_daily_count(counter, day) + 1]

\* variant: ">" in place of ">="
CapReachedLate(counter, day) == get_daily_count(counter, day) > DAILY_GENERATION_LIMIT

\* _get_daily_count() >= DAILY_GENERATION_LIMIT
CapReached(counter, day) == get_daily_count(counter, day) >= DAILY_GENERATION_LIMIT

\* the checks the three POST handlers make on req.prompt, in their order:
\* the status code, with 200 for a request that goes on
Admission(prompt, counter, day) ==
    IF Strip(prompt) = <<>> THEN 400
    ELSE IF Len(Strip(prompt)) > MaxPromptLen THEN 400
    ELSE IF CapReached(counter, day) THEN 429
    ELSE 200

(***************************************************************************)
(* generate.py: slugify and save_output, log_refusal.                      *)
(***************************************************************************)
\* the characters re.sub(r"[^\w\s-]", "", text) removes
Punctuation == {"!", "?", ".", ",", "'", ":"}

\* the characters of the class [\s_-]
Joiners == {" ", "_", "-"}

\* re.sub(r"[\s_-]+", "-", text), character by character: a run of joiners
\* leaves one hyphen
SlugPiece(s, i) ==
    IF s[i] \notin Joiners THEN <<s[i]>>
    ELSE IF i > 1 /\ s[i - 1] \in Joiners THEN <<>>
    ELSE <<"-">>

RECURSIVE Hyphenate(_, _, _)
Hyphenate(s, lo, hi) ==
    IF lo > hi THEN <<>>
    ELSE IF lo = hi THEN SlugPiece(s, lo)
    ELSE CHOOSE out \in {Hyphenate(s, lo, mid) \o Hyphenate(s, mid + 1, hi) :
                             mid \in {(lo + hi) \div 2}} : TRUE

\* str.strip("-")
RECURSIVE StripHyphens(_)
StripHyphens(s) ==
    IF s # <<>> /\ Head(s) = "-" THEN StripHyphens(Tail(s))
    ELSE IF s # <<>> /\ s[Len(s)] = "-" THEN StripHyphens(SubSeq(s, 1, Len(s) - 1))
    ELSE s

\* text[:40].strip("-")
Cut(hyphenated) ==
    StripHyphens(SubSeq(hyphenated, 1,
                        IF Len(hyphenated) < SlugLen THEN Len(hyphenated) ELSE SlugLen))

\* slugify(text): each step on the value of the step before
slugify(text) ==
    CHOOSE slug \in
        {Cut(hyphenated) :
            hyphenated \in {Hyphenate(kept, 1, Len(kept)) :
                kept \in {SelectSeq(stripped, LAMBDA ch : ch \notin Punctuation) :
                    stripped \in {Strip(lowered) :
                        lowered \in {Lower(given) : given \in {text}}}}}} :
        TRUE

\* "refusal" if "refusal" in data else "world"
Prefix(d) == IF Has(d.document.refusal) THEN "refusal" ELSE "world"

\* f"{prefix}-{date_str}-{slug}.json" and f"{prefix}:{date_str}:{slug}"
FileName(prefix, date_str, slug) == <<prefix, "-", date_str, "-", slug, ".json">>
WorldId(prefix, date_str, slug)  == <<prefix, ":", date_str, ":", slug>>

\* open(output_path, "w"); json.dump(data, f): the file is created or replaced
Write(files, name, d) ==
    [f \in DOMAIN files \cup {name} |-> IF f = name THEN d ELSE files[f]]

\* save_output(data, genre) at the instant now: the stamped document and the
\* directory after the write
save_output(d, genre, day, instant, files) ==
    CHOOSE out \in
        {LET stamped == [doc EXCEPT !.generated_at = <<<<day, instant>>>>,
                                    !.id = <<WorldId(Prefix(doc), day, slug)>>]
         IN  [data  |-> stamped,
              files |-> Write(files, FileName(Prefix(doc), day, slug), stamped)] :
            doc \in {d}, slug \in {slugify(genre)}} :
        TRUE

\* log_refusal(data, genre): the line appended
LogEntry(d, genre, day, instant) ==
    [timestamp |-> <<day, instant>>, prompt |-> genre,
     reason |-> d.document.refusal[1].reason,
     corpus_gap |-> d.document.refusal[1].corpus_gap]

(***************************************************************************)
(* What the model call hands back.                                         *)
(***************************************************************************)
\* json.loads(raw) when raw is an object: the document, and the id and
\* generated_at keys the model may have emitted
Parsed(doc, id, generated_at) == [document |-> doc, id |-> id, generated_at |-> generated_at]

\* a World document that passes every rule
SoundWorld ==
    Doc(<<>>, <<TitleOnlyWb>>,
        <<[EmptyCm EXCEPT !.evidence_used = <<<<"evid:x">>>>,
                          !.commercial_confidence = <<"high">>,
                          !.rationale = <<"because">>]>>)

\* a World document that states 'high' and carries a ':high' flag
OverstatedWorld ==
    Doc(<<>>, <<TitleOnlyWb>>,
        <<[EmptyCm EXCEPT !.evidence_used = <<<<"evid:x">>>>,
                          !.unsuppressed_flags = <<<<<<"trademark", "high">>>>>>,
                          !.commercial_confidence = <<"high">>,
                          !.rationale = <<"because">>]>>)

\* the same manifest without any world_bible
ManifestOnly == [OverstatedWorld EXCEPT !.world_bible = <<>>]

RefusalOnly == Doc(<<Refusal>>, <<>>, <<>>)

\* the outcomes of the model call and of what follows it:
\*   "api_error"   client.messages.create raises
\*   "not_json"    json.loads raises JSONDecodeError
\*   "not_object"  the text is JSON but no object: validate_world raises
\*   "disk_error"  the document is an object and open(output_path, "w") raises
\*                 in save_output
\*   "object"      the document is an object and the files can be written
Outcome(kind, d) == [kind |-> kind, data |-> d]

Outcomes ==
    {Outcome(k, Parsed(SoundWorld, <<>>, <<>>)) :
        k \in {"api_error", "not_json", "not_object", "disk_error"}}
    \cup {Outcome("object", Parsed(doc, <<>>, <<>>)) :
            doc \in {OverstatedWorld, ManifestOnly, RefusalOnly}}
    \cup {Outcome("object", Parsed(SoundWorld, <<"world:emitted">>, <<"emitted">>))}

\* the body of the try block of run_generation and of _stream_events, from
\* the model call to world_id = data["id"]: the exception raised, if any,
\* and the files after it
Pipeline(outcome, prompt, day, instant, files, log) ==
    IF outcome.kind \in {"api_error", "not_json", "not_object"}
    THEN [raised |-> <<outcome.kind>>, files |-> files, log |-> log,
          instant |-> instant, world_id |-> <<>>, is_refusal |-> FALSE]
    ELSE
    LET Rest(validated) ==
            LET refused == Has(validated.document.refusal)
                logged  == IF refused
                              THEN Append(log, LogEntry(validated, prompt, day, instant))
                              ELSE log
            IN  IF outcome.kind = "disk_error"
                THEN [raised |-> <<outcome.kind>>, files |-> files, log |-> logged,
                      instant |-> instant, world_id |-> <<>>, is_refusal |-> FALSE]
                ELSE CHOOSE result \in
                        {[raised |-> <<>>, files |-> saved.files, log |-> logged,
                          instant |-> instant + 1, world_id |-> saved.data.id[1],
                          is_refusal |-> refused] :
                            saved \in {save_output(validated, prompt, day, instant, files)}} :
                        TRUE
    IN  CHOOSE result \in
            {Rest(validated) :
                validated \in {[outcome.data EXCEPT !.document = validate_world(@).data]}} :
            TRUE

(***************************************************************************)
(* Bounds of the explored requests.                                        *)
(***************************************************************************)
\* generation requests answered, accepted or not
MaxRequests == 2

\* calendar days the server lives through
MaxDays == 2

\* run_generation tasks the thread pool runs at the same time
MaxThreads == 1

Repeat(ch, n) == [i \in 1..n |-> ch]

\* req.prompt: a plain one, a blank one, the longest accepted (padded with
\* blanks) and the shortest rejected
Prompts ==
    {<<"N", "o", "i", "r", " ", "_", "C", "i", "t", "y", "!">>,
     <<" ", " ">>,
     <<" ">> \o Repeat("a", MaxPromptLen) \o <<" ">>,
     Repeat("a", MaxPromptLen + 1)}

InitJobs ==
    /\ Start(Doc(<<>>, <<>>, <<>>))
    /\ IdleWeb
    /\ IdleMint
    /\ IdleJobs

(***************************************************************************)
(* The handlers and the background work.                                   *)
(***************************************************************************)
\* jobs[job_id] = {"status": "pending", "prompt": prompt}
NewJob(prompt) ==
    [status |-> "pending", prompt |-> prompt,
     world_id |-> <<>>, is_refusal |-> <<>>, error |-> <<>>]

\* background_tasks.add_task(run_generation, job_id, prompt): the task,
\* not yet started
NewTask ==
    [pc |-> "queued", world_id |-> <<>>, is_refusal |-> FALSE, exc |-> <<>>]

\* one more request accepted on day
Tally(count, day) ==
    [d \in DOMAIN count \cup {day} |->
        IF d \in DOMAIN count THEN count[d] + (IF d = day THEN 1 ELSE 0) ELSE 1]

\* the body shared by POST /generate and POST /api/generate
PostGenerate(endpoint, prompt) ==
    /\ requests < MaxRequests
    /\ requests' = requests + 1
    /\ LET code == Admission(prompt, daily_counter, today)
       IN  /\ post_response' =
                 [endpoint |-> endpoint, prompt |-> prompt, code |-> code, day |-> today]
           /\ IF code = 200
                 THEN /\ daily_counter' = increment_daily_count(daily_counter, today)
                      /\ accepted' = Tally(accepted, today)
                      /\ jobs' = Append(jobs, NewJob(Strip(prompt)))
                      /\ tasks' = Append(tasks, NewTask)
                 ELSE UNCHANGED <<daily_counter, accepted, jobs, tasks>>
    /\ UNCHANGED <<today, clock, streams, worlds, refusal_log>>
    /\ stream_event' = NoEvent
    /\ status_response' = NoLookup
    /\ UNCHANGED <<validatorVars, webVars, mintVars>>

generate == \E prompt \in Prompts : PostGenerate("/generate", prompt)

api_generate == \E prompt \in Prompts : PostGenerate("/api/generate", prompt)

\* POST /api/generate-stream up to "return StreamingResponse(...)"
generate_stream ==
    \E prompt \in Prompts :
       /\ requests < MaxRequests
       /\ requests' = requests + 1
       /\ LET code == Admission(prompt, daily_counter, today)
          IN  /\ post_response' =
                    [endpoint |-> "/api/generate-stream", prompt |-> prompt,
                     code |-> code, day |-> today]
              /\ IF code = 200
                    THEN /\ daily_counter' = increment_daily_count(daily_counter, today)
                         /\ accepted' = Tally(accepted, today)
                         /\ streams' = Append(streams, Strip(prompt))
                    ELSE UNCHANGED <<daily_counter, accepted, streams>>
       /\ UNCHANGED <<jobs, tasks, today, clock, worlds, refusal_log>>
       /\ stream_event' = NoEvent
       /\ status_response' = NoLookup
       /\ UNCHANGED <<validatorVars, webVars, mintVars>>

\* _stream_events of the k-th open stream, from the model call to its last
\* event; the response is then closed
stream_events(k) ==
    /\ k \in DOMAIN streams
    /\ \E outcome \in Outcomes :
       \E r \in {Pipeline(outcome, streams[k], today, clock, worlds, refusal_log)} :
              /\ worlds' = r.files
              /\ refusal_log' = r.log
              /\ clock' = r.instant
              /\ stream_event' =
                    IF r.raised # <<>>
                       THEN [type |-> "error", message |-> r.raised[1],
                             world_id |-> <<>>, is_refusal |-> FALSE]
                       ELSE [type |-> "done", message |-> "",
                             world_id |-> r.world_id, is_refusal |-> r.is_refusal]
    /\ streams' = [i \in 1..(Len(streams) - 1) |->
                      IF i < k THEN streams[i] ELSE streams[i + 1]]
    /\ UNCHANGED <<jobs, tasks, daily_counter, today, requests, accepted>>
    /\ post_response' = NoPost
    /\ status_response' = NoLookup
    /\ UNCHANGED <<validatorVars, webVars, mintVars>>

\* the tasks a thread of the pool is running
Running == {i \in DOMAIN tasks : tasks[i].pc \notin {"queued", "return"}}

\* run_generation: jobs[job_id]["status"] = "running", on a free thread
RunStart(j) ==
    /\ j \in DOMAIN tasks
    /\ tasks[j].pc = "queued"
    /\ Cardinality(Running) < MaxThreads
    /\ jobs' = [jobs EXCEPT ![j].status = "running"]
    /\ tasks' = [tasks EXCEPT ![j].pc = "try"]
    /\ UNCHANGED <<daily_counter, today, clock, requests, accepted, streams, worlds,
                   refusal_log>>
    /\ post_response' = NoPost
    /\ stream_event' = NoEvent
    /\ status_response' = NoLookup
    /\ UNCHANGED <<validatorVars, webVars, mintVars>>

\* run_generation: the try block up to world_id = data["id"]
RunTry(j) ==
    /\ j \in DOMAIN tasks
    /\ tasks[j].pc = "try"
    /\ \E outcome \in Outcomes :
       \E r \in {Pipeline(outcome, jobs[j].prompt, today, clock, worlds, refusal_log)} :
              /\ worlds' = r.files
              /\ refusal_log' = r.log
              /\ tasks' =
                    IF r.raised # <<>>
                       THEN [tasks EXCEPT ![j].pc = "except", ![j].exc = r.raised]
                       ELSE [tasks EXCEPT ![j].pc = "saved",
                                          ![j].world_id = r.world_id,
                                          ![j].is_refusal = r.is_refusal]
              /\ clock' = r.instant
    /\ UNCHANGED <<jobs, daily_counter, today, requests, accepted, streams>>
    /\ post_response' = NoPost
    /\ stream_event' = NoEvent
    /\ status_response' = NoLookup
    /\ UNCHANGED <<validatorVars, webVars, mintVars>>

\* one assignment of run_generation to its job: at position from the
\* assignment to is made, and the task moves on to position next
Assign(j, from, to, next) ==
    /\ j \in DOMAIN tasks
    /\ tasks[j].pc = from
    /\ jobs' = [jobs EXCEPT ![j] = to]
    /\ tasks' = [tasks EXCEPT ![j].pc = next]
    /\ UNCHANGED <<daily_counter, today, clock, requests, accepted, streams, worlds,
                   refusal_log>>
    /\ post_response' = NoPost
    /\ stream_event' = NoEvent
    /\ status_response' = NoLookup
    /\ UNCHANGED <<validatorVars, webVars, mintVars>>

\* jobs[job_id]["status"] = "done"
SetDone(j) ==
    Assign(j, "saved", [jobs[j] EXCEPT !.status = "done"], "done")

\* jobs[job_id]["world_id"] = world_id
SetWorldId(j) ==
    Assign(j, "done", [jobs[j] EXCEPT !.world_id = <<tasks[j].world_id>>], "world_id")

\* jobs[job_id]["is_refusal"] = "refusal" in data
SetIsRefusal(j) ==
    Assign(j, "world_id", [jobs[j] EXCEPT !.is_refusal = <<tasks[j].is_refusal>>], "return")

\* variant: the exception is swallowed, the job left as it is
SetErrorSwallowed(j) ==
    Assign(j, "except", jobs[j], "return")

\* except Exception: jobs[job_id]["status"] = "error"
SetError(j) ==
    Assign(j, "except", [jobs[j] EXCEPT !.status = "error"], "error")

\* jobs[job_id]["error"] = str(exc)
SetErrorMessage(j) ==
    Assign(j, "error", [jobs[j] EXCEPT !.error = tasks[j].exc], "return")

\* the statements of the task of job j
run_generation(j) ==
    \/ RunStart(j)
    \/ RunTry(j)
    \/ SetDone(j)
    \/ SetWorldId(j)
    \/ SetIsRefusal(j)
    \/ SetError(j)
    \/ SetErrorMessage(j)

\* the body shared by GET /status/{job_id} and GET /api/job/{job_id}
Lookup(endpoint, job_id) ==
    /\ status_response' =
          IF job_id \in DOMAIN jobs
             THEN [endpoint |-> endpoint, code |-> 200, job_id |-> job_id,
                   body |-> <<jobs[job_id]>>]
             ELSE [endpoint |-> endpoint, code |-> 404, job_id |-> job_id, body |-> <<>>]
    /\ UNCHANGED <<jobs, daily_counter, today, clock, requests, accepted, tasks,
                   streams, worlds, refusal_log>>
    /\ post_response' = NoPost
    /\ stream_event' = NoEvent
    /\ UNCHANGED <<validatorVars, webVars, mintVars>>

status == \E job_id \in 1..(MaxRequests + 1) : Lookup("/status", job_id)

api_job == \E job_id \in 1..(MaxRequests + 1) : Lookup("/api/job", job_id)

\* midnight
NewDay ==
    /\ today < MaxDays
    /\ today' = today + 1
    /\ UNCHANGED <<jobs, daily_counter, clock, requests, accepted, tasks, streams,
                   worlds, refusal_log>>
    /\ post_response' = NoPost
    /\ stream_event' = NoEvent
    /\ status_response' = NoLookup
    /\ UNCHANGED <<validatorVars, webVars, mintVars>>

NextJobs ==
    \/ generate
    \/ api_generate
    \/ generate_stream
    \/ \E k \in 1..MaxRequests : stream_events(k)
    \/ \E j \in 1..MaxRequests : run_generation(j)
    \/ status
    \/ api_job
    \/ NewDay

SpecJobs == InitJobs /\ [][NextJobs]_vars

\* the admission of requests alone: the three POST handlers and midnight,
\* the work they start left waiting
NextQuota ==
    \/ generate
    \/ api_generate
    \/ generate_stream
    \/ NewDay

SpecQuota == InitJobs /\ [][NextQuota]_vars

\* the job queue of one day alone: the two handlers that create jobs and the
\* tasks of the thread pool, which runs every statement of a task it can run
NextRun ==
    \/ generate
    \/ api_generate
    \/ \E j \in 1..MaxRequests : run_generation(j)

SpecRun ==
    InitJobs /\ [][NextRun]_vars /\ \A j \in 1..MaxRequests : WF_vars(run_generation(j))

(***************************************************************************)
(* Vocabulary of the properties.                                           *)
(***************************************************************************)
WorldBibleOf(d) == Get(d.world_bible, EmptyWb)
ManifestOf(d)   == Get(d.compliance_manifest, EmptyCm)

IsRefusal(d) == Has(d.refusal)

\* a World document: no refusal, both sections present and non-empty
PassesRule1(d) ==
    /\ ~IsRefusal(d)
    /\ d.world_bible # <<>> /\ d.world_bible # <<EmptyWb>>
    /\ d.compliance_manifest # <<>> /\ d.compliance_manifest # <<EmptyCm>>

CharactersOf(d) == Get(WorldBibleOf(d).characters, <<>>)
FactionsOf(d)   == Get(WorldBibleOf(d).factions, <<>>)

Mismatches(es) == {i \in DOMAIN es : es[i].msg = MsgMismatch}

Occurrences(es, v) == Cardinality({i \in DOMAIN es : es[i] = v})

\* the entity is named by its id, else its name, else '?'
NamedBy(e) ==
    IF e.id # <<>> /\ e.id[1] # "" THEN e.id[1]
    ELSE IF e.name # <<>> THEN e.name[1] ELSE "?"

LacksEvidence(e) == e.evidence_id = <<>> \/ e.evidence_id = <<"">>

IsHigh(f)   == EndsWith(f, "high")
IsMedium(f) == EndsWith(f, "medium")

(***************************************************************************)
(* C1  Idempotence.  A second call of validate_world on a World document   *)
(* that a first call has already processed reports no confidence mismatch, *)
(* reports nothing the first call did not report, and leaves the document  *)
(* as the first call left it.                                              *)
(***************************************************************************)
C1_Idempotent ==
    [][(calls = 1 /\ PassesRule1(world_json)) =>
          /\ Mismatches(errors') = {}
          /\ \A i \in DOMAIN errors' :
                Occurrences(errors', errors'[i]) <= Occurrences(errors, errors'[i])
          /\ data' = data]_vars

\* a corrected document has been validated again: the first call reported
\* the mismatch, the second did not
C1_Witness ==
    /\ calls = 2
    /\ PassesRule1(world_json)
    /\ Mismatches(first_errors) # {}
    /\ Mismatches(errors) = {}
    /\ data # world_json

(***************************************************************************)
(* C4  Mismatch is reported and healed.  On a document that passes Rule 1, *)
(* the first call returns exactly one mismatch violation, overwrites the   *)
(* confidence and sets the marker when the stated confidence differs from  *)
(* the computed one (absent counts as different); when they are equal it   *)
(* returns no mismatch violation and writes nothing.                       *)
(***************************************************************************)
C4_MismatchHealed ==
    (calls = 1 /\ PassesRule1(world_json)) =>
        LET stated   == ManifestOf(world_json).commercial_confidence
            computed == locals.expected_confidence
            after    == ManifestOf(data)
        IN  /\ locals.ran
            /\ stated # <<computed>> =>
                  /\ Cardinality(Mismatches(errors)) = 1
                  /\ after.commercial_confidence = <<computed>>
                  /\ after.confidence_corrected = <<TRUE>>
            /\ stated = <<computed>> =>
                  /\ Mismatches(errors) = {}
                  /\ after = ManifestOf(world_json)

\* a manifest without any stated confidence has been corrected
C4_Witness ==
    /\ calls = 1
    /\ PassesRule1(world_json)
    /\ ManifestOf(world_json).commercial_confidence = <<>>
    /\ Cardinality(Mismatches(errors)) = 1
    /\ ManifestOf(data).commercial_confidence = <<locals.expected_confidence>>
    /\ ManifestOf(data).confidence_corrected = <<TRUE>>

(***************************************************************************)
(* C5  Frame.  Whatever the input and however often validate_world ran,    *)
(* the document differs from the caller's input at most in                 *)
(* compliance_manifest.commercial_confidence and ._confidence_corrected,   *)
(* and only if a mismatch was reported; refusals, documents failing Rule 1 *)
(* and documents whose stated confidence was right are left unchanged.     *)
(***************************************************************************)
C5_Frame ==
    calls >= 1 =>
        /\ data.refusal = world_json.refusal
        /\ data.world_bible = world_json.world_bible
        /\ Has(data.compliance_manifest) = Has(world_json.compliance_manifest)
        /\ [ManifestOf(data) EXCEPT !.commercial_confidence = <<>>,
                                    !.confidence_corrected = <<>>]
           = [ManifestOf(world_json) EXCEPT !.commercial_confidence = <<>>,
                                            !.confidence_corrected = <<>>]
        /\ Mismatches(first_errors) = {} => data = world_json
        /\ (IsRefusal(world_json) \/ ~PassesRule1(world_json)) => data = world_json

\* a manifest that already carried the marker and the right confidence, next
\* to flags, assets and evidence, has been validated and is unchanged
C5_Witness ==
    /\ calls = 2
    /\ PassesRule1(world_json)
    /\ ManifestOf(world_json).confidence_corrected = <<TRUE>>
    /\ ManifestOf(world_json).commercial_confidence = <<"medium">>
    /\ TruthyList(ManifestOf(world_json).asset_clearances)
    /\ first_errors = <<>>
    /\ data = world_json

(***************************************************************************)
(* C2  Confidence by strict precedence.  After validate_world has run on a *)
(* document that passes Rule 1, the manifest's commercial_confidence is    *)
(* 'low' if a gathered flag ends in ':high' or there is no clearance       *)
(* evidence at all, else 'medium' if a gathered flag ends in ':medium',    *)
(* else 'high'.                                                            *)
(***************************************************************************)
Precedence(flags, no_evidence) ==
    IF (\E i \in DOMAIN flags : IsHigh(flags[i])) \/ no_evidence THEN "low"
    ELSE IF \E i \in DOMAIN flags : IsMedium(flags[i]) THEN "medium"
    ELSE "high"

\* as claimed: "no clearance evidence" is an empty declared set and no
\* asset-clearance list present in the manifest
C2_AsClaimed ==
    (calls >= 1 /\ PassesRule1(world_json)) =>
        LET cm == ManifestOf(world_json)
            no_evidence == /\ locals.declared = {}
                           /\ ~Has(cm.asset_clearances)
                           /\ ~Has(cm.assets_used)
        IN  ManifestOf(data).commercial_confidence
                = <<Precedence(locals.flags, no_evidence)>>

\* as amended: "no clearance evidence" is an empty declared set and neither
\* asset_clearances nor assets_used holding an entry (an asset list that is
\* present but empty is no clearance evidence)
C2_Precedence ==
    (calls >= 1 /\ PassesRule1(world_json)) =>
        LET cm == ManifestOf(world_json)
            no_evidence == /\ locals.declared = {}
                           /\ Get(cm.asset_clearances, <<>>) = <<>>
                           /\ Get(cm.assets_used, <<>>) = <<>>
        IN  ManifestOf(data).commercial_confidence
                = <<Precedence(locals.flags, no_evidence)>>

\* a manifest with clearance evidence whose gathered flags hold a ':medium'
\* and a ':high' flag, stated 'medium', has been rewritten to 'low'
C2_Witness ==
    /\ calls = 1
    /\ PassesRule1(world_json)
    /\ \E i \in DOMAIN locals.flags : IsHigh(locals.flags[i])
    /\ \E i \in DOMAIN locals.flags : IsMedium(locals.flags[i])
    /\ locals.declared # {}
    /\ ManifestOf(world_json).commercial_confidence = <<"medium">>
    /\ ManifestOf(data).commercial_confidence = <<"low">>

(***************************************************************************)
(* C3  Confidence monotonicity.  If the manifest of a World document       *)
(* carries a flag ending in ':high' anywhere - in unsuppressed_flags, in   *)
(* risk_flags, or in the risk_flags of an entry of asset_clearances or     *)
(* assets_used - the computed confidence is 'low'.                         *)
(***************************************************************************)
CarriedFlags(cm) ==
    LET per_asset(assets) == UNION {Range(Get(assets[i].risk_flags, <<>>)) : i \in DOMAIN assets}
    IN  Range(Get(cm.unsuppressed_flags, <<>>))
        \cup Range(Get(cm.risk_flags, <<>>))
        \cup per_asset(Get(cm.asset_clearances, <<>>))
        \cup per_asset(Get(cm.assets_used, <<>>))

C3_HighMeansLow ==
    (calls >= 1 /\ PassesRule1(world_json)
       /\ \E f \in CarriedFlags(ManifestOf(world_json)) : IsHigh(f)) =>
        /\ locals.expected_confidence = "low"
        /\ ManifestOf(data).commercial_confidence = <<"low">>

(***************************************************************************)
(* C6  Rule 0, shape exclusivity.  On a document with the key 'refusal'    *)
(* validate_world returns one violation naming 'world_bible' if that key   *)
(* is present, one naming 'compliance_manifest' if that key is present,    *)
(* and nothing else; no later rule runs and the document is not touched.   *)
(***************************************************************************)
C6_ShapeExclusivity ==
    (calls >= 1 /\ IsRefusal(world_json)) =>
        LET naming(k) == {i \in DOMAIN errors :
                             errors[i].msg = MsgRefusal /\ errors[i].kind = k}
            want(opt) == IF opt # <<>> THEN 1 ELSE 0
        IN  /\ Cardinality(naming("world_bible")) = want(world_json.world_bible)
            /\ Cardinality(naming("compliance_manifest"))
                   = want(world_json.compliance_manifest)
            /\ Len(errors) = want(world_json.world_bible)
                             + want(world_json.compliance_manifest)
            /\ ~locals.ran
            /\ data = world_json

\* a refusal that also carries a world bible with an unevidenced character
\* and a manifest without confidence got exactly the two shape violations
C6_Witness ==
    /\ calls = 1
    /\ IsRefusal(world_json)
    /\ \E i \in DOMAIN CharactersOf(world_json) : LacksEvidence(CharactersOf(world_json)[i])
    /\ Has(world_json.compliance_manifest)
    /\ ManifestOf(world_json).commercial_confidence = <<>>
    /\ Len(errors) = 2

(***************************************************************************)
(* C7  Rule 1, required sections.  On a non-refusal document whose         *)
(* world_bible or compliance_manifest is missing or empty, validate_world  *)
(* returns exactly one violation - 'Missing world_bible' if the world      *)
(* bible is the missing one (also when both are), else 'Missing            *)
(* compliance_manifest' - and runs none of Rules 2-4.                      *)
(***************************************************************************)
C7_RequiredSections ==
    (calls >= 1 /\ ~IsRefusal(world_json) /\ ~PassesRule1(world_json)) =>
        LET wb_missing == \/ world_json.world_bible = <<>>
                          \/ world_json.world_bible = <<EmptyWb>>
        IN  /\ Len(errors) = 1
            /\ errors[1].msg = MsgMissing
            /\ errors[1].kind = IF wb_missing THEN "world_bible" ELSE "compliance_manifest"
            /\ ~locals.ran
            /\ data = world_json

\* a world bible with an unevidenced character and an empty manifest: only
\* 'Missing compliance_manifest' is returned
C7_Witness ==
    /\ calls = 1
    /\ ~IsRefusal(world_json)
    /\ \E i \in DOMAIN CharactersOf(world_json) : LacksEvidence(CharactersOf(world_json)[i])
    /\ world_json.compliance_manifest = <<EmptyCm>>
    /\ Len(errors) = 1
    /\ errors[1].kind = "compliance_manifest"

(***************************************************************************)
(* C8  Evidence completeness.  Every character without a (non-empty)       *)
(* evidence_id yields exactly one 'missing evidence_id' violation naming   *)
(* it: for every name, the result holds as many such violations with that  *)
(* name as there are unevidenced characters so named.                      *)
(***************************************************************************)
EvidenceLabels == {"e1", "n1", "", "?"}

CompleteFor(d, es) ==
    \A l \in EvidenceLabels \cup {es[i].label : i \in DOMAIN es} :
        Cardinality({i \in DOMAIN es :
                        /\ es[i].msg = MsgNoEvidence
                        /\ es[i].kind = "Character"
                        /\ es[i].label = l})
        = Cardinality({i \in DOMAIN CharactersOf(d) :
                        /\ LacksEvidence(CharactersOf(d)[i])
                        /\ NamedBy(CharactersOf(d)[i]) = l})

\* as claimed: for every non-refusal document, whatever the manifest
C8_AsClaimed ==
    (calls >= 1 /\ ~IsRefusal(world_json)) => CompleteFor(world_json, errors)

\* as amended: for every non-refusal document that passes Rule 1 (its
\* world_bible and its compliance_manifest are both present and non-empty)
C8_EvidenceComplete ==
    (calls >= 1 /\ PassesRule1(world_json)) => CompleteFor(world_json, errors)

\* a character whose evidence_id is the empty string, in a document that
\* passes Rule 1, got its violation
C8_Witness ==
    /\ calls = 1
    /\ PassesRule1(world_json)
    /\ \E i \in DOMAIN CharactersOf(world_json) :
          CharactersOf(world_json)[i].evidence_id = <<"">>
    /\ \E i \in DOMAIN errors : errors[i].msg = MsgNoEvidence /\ errors[i].kind = "Character"

(***************************************************************************)
(* C9  Rule 3, evidence cross-reference.  On a document that passes        *)
(* Rule 1, the result holds exactly one 'not in compliance_manifest        *)
(* evidence' violation for each character and each faction whose non-empty *)
(* evidence_id is not in the declared set, quoting its label and the id,   *)
(* and none for any other character or faction.                            *)
(***************************************************************************)
C9_CrossReference ==
    (calls >= 1 /\ PassesRule1(world_json)) =>
        LET dangling(entities, l, e) ==
                {i \in DOMAIN entities :
                    /\ ~LacksEvidence(entities[i])
                    /\ entities[i].evidence_id[1] = e
                    /\ e \notin locals.declared
                    /\ NamedBy(entities[i]) = l}
            reported(k, l, e) ==
                {i \in DOMAIN errors :
                    /\ errors[i].msg = MsgNotInCm /\ errors[i].kind = k
                    /\ errors[i].label = l /\ errors[i].eid = e}
        IN  \A l \in EvidenceLabels \cup {errors[i].label : i \in DOMAIN errors},
               e \in EvidenceIds \cup {errors[i].eid : i \in DOMAIN errors} :
               /\ Cardinality(reported("Character", l, e))
                    = Cardinality(dangling(CharactersOf(world_json), l, e))
               /\ Cardinality(reported("Faction", l, e))
                    = Cardinality(dangling(FactionsOf(world_json), l, e))

\* a faction with evidence_id 'evid:x' against evidence_used ['evid:y'] got
\* exactly one cross-reference violation, naming it and 'evid:x'
C9_Witness ==
    /\ calls = 1
    /\ PassesRule1(world_json)
    /\ ManifestOf(world_json).evidence_used = << <<"evid:y">> >>
    /\ Len(FactionsOf(world_json)) = 1
    /\ FactionsOf(world_json)[1].evidence_id = <<"evid:x">>
    /\ Cardinality({i \in DOMAIN errors : errors[i].msg = MsgNotInCm}) = 1
    /\ \E i \in DOMAIN errors :
          /\ errors[i].msg = MsgNotInCm /\ errors[i].kind = "Faction"
          /\ errors[i].label = NamedBy(FactionsOf(world_json)[1])
          /\ errors[i].eid = "evid:x"

(***************************************************************************)
(* C10  Declared-evidence fallback order.  The declared set used by Rule 3 *)
(* is the evidence_used list when that is non-empty; otherwise the         *)
(* evidence_ids of the entries of asset_clearances when that list is       *)
(* non-empty; otherwise the evidence_ids of the entries of assets_used.    *)
(* The first non-empty field wins even if it yields no evidence_id.        *)
(***************************************************************************)
EvidenceIdsOf(assets) ==
    {assets[i].evidence_id[1] : i \in {j \in DOMAIN assets : ~LacksEvidence(assets[j])}}

C10_FallbackOrder ==
    (calls >= 1 /\ PassesRule1(world_json)) =>
        LET cm == ManifestOf(world_json)
            eu == Get(cm.evidence_used, <<>>)
            ac == Get(cm.asset_clearances, <<>>)
            au == Get(cm.assets_used, <<>>)
        IN  locals.declared =
               IF eu # <<>> THEN Range(eu)
               ELSE IF ac # <<>> THEN EvidenceIdsOf(ac)
               ELSE EvidenceIdsOf(au)

\* no evidence_used, an asset_clearances entry without evidence_id and an
\* assets_used entry with one: asset_clearances won and the set is empty
C10_Witness ==
    /\ calls = 1
    /\ PassesRule1(world_json)
    /\ Get(ManifestOf(world_json).evidence_used, <<>>) = <<>>
    /\ TruthyList(ManifestOf(world_json).asset_clearances)
    /\ EvidenceIdsOf(Get(ManifestOf(world_json).assets_used, <<>>)) # {}
    /\ locals.declared = {}

(***************************************************************************)
(* C11  The stated confidence is never trusted.  Two World documents that  *)
(* pass Rule 1 and differ only in the value of commercial_confidence       *)
(* (absent included) carry the same commercial_confidence after            *)
(* validate_world has run on each: the validated document agrees with the  *)
(* outcome of the call on each of its siblings.                            *)
(***************************************************************************)
WithStated(d, c) ==
    [d EXCEPT !.compliance_manifest =
        <<[ManifestOf(d) EXCEPT !.commercial_confidence = c]>>]

C11_StatedNotTrusted ==
    (calls = 1 /\ PassesRule1(world_json)) =>
        \A c \in Opt(Confidences) :
            PassesRule1(WithStated(world_json, c)) =>
                ManifestOf(validate_world(WithStated(world_json, c)).data).commercial_confidence
                    = ManifestOf(data).commercial_confidence

\* a manifest stating 'low' where 'high' is computed has been raised to 'high'
C11_Witness ==
    /\ calls = 1
    /\ PassesRule1(world_json)
    /\ ManifestOf(world_json).commercial_confidence = <<"low">>
    /\ ManifestOf(data).commercial_confidence = <<"high">>

(***************************************************************************)
(* C12  End-to-end scenario 1.  A manifest stating 'high' whose flags are  *)
(* ['meme_derivative:medium'] gets exactly one mismatch violation, is      *)
(* rewritten to 'medium' and carries the correction marker.                *)
(***************************************************************************)
Scenario1(d) ==
    /\ PassesRule1(d)
    /\ ManifestOf(d).commercial_confidence = <<"high">>
    /\ locals.flags = << <<"meme_derivative", "medium">> >>

Scenario1Outcome ==
    /\ Cardinality(Mismatches(errors)) = 1
    /\ ManifestOf(data).commercial_confidence = <<"medium">>
    /\ ManifestOf(data).confidence_corrected = <<TRUE>>

\* as claimed: for every such manifest
C12_AsClaimed ==
    (calls = 1 /\ Scenario1(world_json)) => Scenario1Outcome

\* as amended: for every such manifest that carries clearance evidence (a
\* non-empty declared evidence set or an entry in asset_clearances or
\* assets_used); without any, the rewrite is to 'low'
C12_Scenario1 ==
    (calls = 1 /\ Scenario1(world_json)) =>
        LET cm == ManifestOf(world_json)
            evidence == \/ locals.declared # {}
                        \/ Get(cm.asset_clearances, <<>>) # <<>>
                        \/ Get(cm.assets_used, <<>>) # <<>>
        IN  /\ evidence => Scenario1Outcome
            /\ ~evidence =>
                  /\ Cardinality(Mismatches(errors)) = 1
                  /\ ManifestOf(data).commercial_confidence = <<"low">>
                  /\ ManifestOf(data).confidence_corrected = <<TRUE>>

\* the scenario with evidence_used = ['evid:x'] has been rewritten to 'medium'
C12_Witness ==
    /\ calls = 1
    /\ Scenario1(world_json)
    /\ ManifestOf(world_json).evidence_used = << <<"evid:x">> >>
    /\ ManifestOf(world_json).unsuppressed_flags = << << <<"meme_derivative", "medium">> >> >>
    /\ Scenario1Outcome

(***************************************************************************)
(* C13  Fail-closed bias on missing evidence.  A World document that       *)
(* passes Rule 1 and whose declared evidence set is empty is computed      *)
(* 'low', even without any risk flag.                                      *)
(***************************************************************************)
\* as claimed: whenever the declared evidence set is empty
C13_AsClaimed ==
    (calls >= 1 /\ PassesRule1(world_json) /\ locals.declared = {}) =>
        /\ locals.expected_confidence = "low"
        /\ ManifestOf(data).commercial_confidence = <<"low">>

\* as amended: whenever the declared evidence set is empty and neither
\* asset_clearances nor assets_used holds an entry (asset entries without
\* evidence_id leave the declared set empty and are not a 'low' signal)
C13_FailClosed ==
    (calls >= 1 /\ PassesRule1(world_json) /\ locals.declared = {}
       /\ Get(ManifestOf(world_json).asset_clearances, <<>>) = <<>>
       /\ Get(ManifestOf(world_json).assets_used, <<>>) = <<>>) =>
        /\ locals.expected_confidence = "low"
        /\ ManifestOf(data).commercial_confidence = <<"low">>

\* no flag and no evidence at all, stated 'high': rewritten to 'low'
C13_Witness ==
    /\ calls = 1
    /\ PassesRule1(world_json)
    /\ CarriedFlags(ManifestOf(world_json)) = {}
    /\ locals.flags = <<>>
    /\ locals.declared = {}
    /\ ManifestOf(world_json).commercial_confidence = <<"high">>
    /\ ManifestOf(data).commercial_confidence = <<"low">>

(***************************************************************************)
(* C14  validate_world is total on structurally sound input and an absent  *)
(* field behaves as an empty one.  On every explored document the call     *)
(* returns a list of violations; and on a document that passes Rule 1,     *)
(* giving an absent list-valued key the empty list, or an absent           *)
(* evidence_id the empty string, changes neither the violations returned   *)
(* nor the confidence the document ends with.                              *)
(***************************************************************************)
Messages == {MsgRefusal, MsgMissing, MsgNoEvidence, MsgNotInCm, MsgMismatch}

ManifestListKeys ==
    {"evidence_used", "asset_clearances", "assets_used", "unsuppressed_flags", "risk_flags"}

WorldBibleListKeys == {"characters", "factions"}

\* the document with the absent key k of its manifest / world bible set to []
WithEmptyManifestKey(d, k) ==
    [d EXCEPT !.compliance_manifest = <<[ManifestOf(d) EXCEPT ![k] = << <<>> >>]>>]

WithEmptyWorldBibleKey(d, k) ==
    [d EXCEPT !.world_bible = <<[WorldBibleOf(d) EXCEPT ![k] = << <<>> >>]>>]

\* the document with every absent evidence_id of a character set to ""
WithEmptyEvidenceIds(d) ==
    [d EXCEPT !.world_bible = <<[WorldBibleOf(d) EXCEPT !.characters =
        IF @ = <<>> THEN <<>>
        ELSE <<[i \in DOMAIN @[1] |->
                  IF @[1][i].evidence_id = <<>>
                     THEN [@[1][i] EXCEPT !.evidence_id = <<"">>] ELSE @[1][i]]>>]>>]

SameOutcome(d) ==
    /\ validate_world(d).errors = errors
    /\ ManifestOf(validate_world(d).data).commercial_confidence
         = ManifestOf(data).commercial_confidence

AbsentAsEmpty(manifest_keys) ==
    (calls = 1 /\ PassesRule1(world_json)) =>
        /\ \A k \in manifest_keys :
              ManifestOf(world_json)[k] = <<>> => SameOutcome(WithEmptyManifestKey(world_json, k))
        /\ \A k \in WorldBibleListKeys :
              WorldBibleOf(world_json)[k] = <<>> => SameOutcome(WithEmptyWorldBibleKey(world_json, k))
        /\ SameOutcome(WithEmptyEvidenceIds(world_json))

C14_TotalAbsentAsEmpty ==
    /\ calls >= 1 => \A i \in DOMAIN errors : errors[i].msg \in Messages
    /\ AbsentAsEmpty(ManifestListKeys)

(***************************************************************************)
(* Vocabulary of the decoder properties.                                   *)
(***************************************************************************)
\* the decoder has been called on stdout; what it returned
Called   == decoded # <<>>
Returned == decoded[1].value

\* every character of s is a blank (the empty string included)
Blank(s) == \A i \in DOMAIN s : s[i] = " "

\* every printed tuple reached the decoder intact
AllIntact == \A i \in DOMAIN printed : printed[i].shape = Intact

\* the printed tuples are the plain ones of a history
PlainHistory == \A i \in DOMAIN printed : printed[i].entry = PlainEntry(i)

\* the printed tuples that lost their last field
ShortPieces == {i \in DOMAIN printed : printed[i].shape.kind = "short"}

(***************************************************************************)
(* C15  Decoder robustness.  _parse_cast_generation_output returns a list  *)
(* and never raises, whatever the string; it returns the empty list for    *)
(* the empty string, for blanks only and for the literal '[]'; and a tuple *)
(* of nine fields contributes no record.                                   *)
(***************************************************************************)
C15_DecoderRobust ==
    Called =>
        /\ ~decoded[1].raised
        /\ DOMAIN Returned = 1..Len(Returned)
        /\ (Blank(stdout) \/ stdout = <<"[", "]">>) => Returned = <<>>
        /\ \A i \in ShortPieces : \A k \in DOMAIN Returned :
              Returned[k].token_id # printed[i].entry.token_id
        /\ (PlainHistory /\ \A i \in DOMAIN printed :
                               printed[i].shape.kind \in {"tuple", "short"}) =>
              Len(Returned) = Len(printed) - Cardinality(ShortPieces)

\* a nine-field tuple followed by an intact one: only the second is decoded
C15_Witness ==
    /\ Called
    /\ Len(printed) = 2
    /\ printed[1].shape.kind = "short"
    /\ printed[2].shape = Intact
    /\ Len(Returned) = 1
    /\ Returned[1].token_id = <<"2">>

\* the confidence text the code table gives for the text printed in field 6
ClaimedConfidence(text) ==
    CASE text = <<"0">>      -> <<"l", "o", "w">>
      [] text = <<"1">>      -> <<"m", "e", "d", "i", "u", "m">>
      [] text = <<"2">>      -> <<"h", "i", "g", "h">>
      [] text = <<"7">>      -> <<"7">>
      [] text = <<"0", "7">> -> <<"7">>
      [] text = <<"-", "1">> -> <<"-", "1">>
      [] OTHER               -> <<"l", "o", "w">>

\* the record a printed tuple stands for, field by field
RecordOf(e) ==
    [token_id              |-> e.token_id,
     generator_address     |-> e.generator_address,
     world_bible_hash      |-> e.world_bible_hash,
     manifest_hash         |-> e.manifest_hash,
     ipfs_cid              |-> e.ipfs_cid,
     universes_used        |-> e.universes,
     commercial_confidence |-> ClaimedConfidence(e.confidence),
     block_height          |-> e.block_height,
     timestamp             |-> e.timestamp]

(***************************************************************************)
(* C16  Per-record failure isolation.  When one tuple of the array is      *)
(* malformed (truncated, a stray bracket or parenthesis, too few fields),  *)
(* only that record is skipped: every intact tuple of the same output,     *)
(* before or after it, still yields its record.                            *)
(***************************************************************************)
C16_FailureIsolation ==
    (Called /\ PlainHistory) =>
        \A i \in DOMAIN printed :
            printed[i].shape = Intact =>
                \E k \in DOMAIN Returned : Returned[k] = RecordOf(printed[i].entry)

\* every printed tuple is intact and has been decoded to a record of its own
OneRecordEach == Called /\ AllIntact /\ Len(Returned) = Len(printed)

\* the attributes taken from a fixed field as a trimmed string
PositionalFields ==
    {"token_id", "generator_address", "world_bible_hash", "manifest_hash",
     "ipfs_cid", "block_height", "timestamp"}

\* the record decoded for the i-th tuple maps the fields by position, with
\* universes the list decoded from field 5
MappedByPosition(i, universes) ==
    /\ \A f \in PositionalFields : Returned[i][f] = RecordOf(printed[i].entry)[f]
    /\ Returned[i].universes_used = universes
    /\ printed[i].entry.confidence = <<"2">> =>
          Returned[i].commercial_confidence = <<"h", "i", "g", "h">>

C18_ConfidenceMapping ==
    OneRecordEach =>
        \A i \in DOMAIN printed :
            /\ Returned[i].commercial_confidence
                 = ClaimedConfidence(printed[i].entry.confidence)
            /\ \A j \in DOMAIN Returned[i].commercial_confidence :
                  Returned[i].commercial_confidence[j] \in STRING

\* the code printed as 07 has been decoded to '7'
C18_Witness ==
    /\ OneRecordEach
    /\ Len(printed) = 1
    /\ printed[1].entry.confidence = <<"0", "7">>
    /\ Returned[1].commercial_confidence = <<"7">>

(***************************************************************************)
(* C19  Quote- and depth-aware tokenization.  A comma, bracket or          *)
(* parenthesis inside the quoted storage CID, or a comma inside the        *)
(* universes array, changes neither the number nor the position of the     *)
(* fields: every intact tuple (whose last field is not empty) decodes to   *)
(* one record, whose ipfs_cid is the full quoted content.                  *)
(***************************************************************************)
C19_QuoteAware ==
    (Called /\ AllIntact /\ \A i \in DOMAIN printed : printed[i].entry.timestamp # <<>>) =>
        /\ Len(Returned) = Len(printed)
        /\ \A i \in DOMAIN printed :
              Returned[i].ipfs_cid = printed[i].entry.ipfs_cid

(***************************************************************************)
(* Vocabulary of the timestamp properties.                                 *)
(***************************************************************************)
\* the timestamp texts that stand for a positive integer, with their value
KnownTimestamps ==
    {[text |-> <<"5">>, value |-> 5], [text |-> <<"1", "2">>, value |-> 12]}
        \cup {[text |-> IntToStr(i), value |-> i] : i \in 1..MaxTuples}

Known(text) == \E k \in KnownTimestamps : k.text = text

ValueOf(text) == (CHOOSE k \in KnownTimestamps : k.text = text).value

\* the timestamp texts that stand for an integer that is not positive
NonPositive == {<<"0">>, <<"-", "5">>}

\* the greatest known timestamp of the generations, None when there is none
ClaimedLastGeneratedAt ==
    LET known == {ValueOf(generations[i].timestamp) :
                    i \in {j \in DOMAIN generations : Known(generations[j].timestamp)}}
    IN  IF known = {} THEN <<>>
        ELSE << CHOOSE m \in known : \A n \in known : n <= m >>

\* the timestamp cells and the JSON field are as claimed, with unparseable(text)
\* the cell of a text that is no integer
TimestampHandling(unparseable(_)) ==
    AllIntact =>
        /\ "manifests_page" \in served =>
              /\ Len(rows) = Len(generations)
              /\ \A i \in DOMAIN generations :
                    LET text == generations[i].timestamp
                    IN  rows[i] = IF Known(text) THEN DateCell(ValueOf(text))
                                  ELSE IF text = <<>> \/ text \in NonPositive
                                      THEN Placeholder
                                  ELSE unparseable(text)
        /\ "manifests_json" \in served =>
              last_generated_at = ClaimedLastGeneratedAt

UnknownCell(text) == Placeholder

(***************************************************************************)
(* C20  Timestamp handling in the display layer.  manifests_page and       *)
(* manifests_json parse the timestamp of each decoded record to an         *)
(* integer; a non-positive or unparseable one is unknown: its row shows    *)
(* the placeholder and it does not contribute to last_generated_at, which  *)
(* is null when no record has a positive timestamp.                        *)
(***************************************************************************)
\* as claimed: the placeholder for every unknown timestamp
C20_AsClaimed == TimestampHandling(UnknownCell)

\* as amended: the placeholder for an empty or non-positive timestamp, the
\* raw text itself for a non-empty one that is no integer
C20_TimestampHandling == TimestampHandling(TextCell)

\* both consumers served a history with the timestamps 'x' and 5
C20_Witness ==
    /\ AllIntact
    /\ {"manifests_page", "manifests_json"} \subseteq served
    /\ Len(generations) = 2
    /\ generations[1].timestamp = <<"x">>
    /\ generations[2].timestamp = <<"5">>
    /\ rows = << TextCell(<<"x">>), DateCell(5) >>
    /\ last_generated_at = <<5>>

(***************************************************************************)
(* C21  cc0_validate_world is read-only on its input.  The caller's        *)
(* world_json is never modified; the result has valid = true exactly when  *)
(* warnings is empty; whenever a mismatch is reported, the returned world  *)
(* carries the computed commercial_confidence and the correction marker;   *)
(* and a second call with the same input returns the same result.          *)
(***************************************************************************)
C21_ReadOnlyTool ==
    [][/\ world_json' = world_json
       /\ ToolResult'.valid <=> (ToolResult'.warnings = <<>>)
       /\ \A i \in Mismatches(ToolResult'.warnings) :
             /\ ManifestOf(ToolResult'.world).commercial_confidence
                  = <<ToolResult'.warnings[i].computed>>
             /\ ManifestOf(ToolResult'.world).confidence_corrected = <<TRUE>>
       /\ calls = 1 => ToolResult' = ToolResult]_vars

\* the tool has been called twice on a document stating a wrong confidence:
\* both calls reported the mismatch, the input still states the wrong value
C21_Witness ==
    /\ calls = 2
    /\ PassesRule1(world_json)
    /\ Mismatches(first_errors) # {}
    /\ Mismatches(errors) # {}
    /\ errors = first_errors
    /\ ManifestOf(world_json).commercial_confidence = <<"high">>
    /\ ManifestOf(data).commercial_confidence = <<"low">>
    /\ ManifestOf(world_json).confidence_corrected = <<>>

(***************************************************************************)
(* Vocabulary of the mint properties.                                      *)
(***************************************************************************)
\* the payment a well-formed hash string names, whatever its letter case
Payment(payment_tx) ==
    CASE payment_tx \in {Hash(<<"0", "x">>, "a"), Hash(<<"0", "X">>, "A")} -> "payment a"
      [] payment_tx = Hash(<<"0", "x">>, "b") -> "payment b"
      [] OTHER -> "no payment"

\* the payments some call has minted for
MintedPayments == {Payment(mints[i].payment_tx) : i \in DOMAIN mints}

\* a worldkit_mint call returns in this step
MintCallReturns == mint_calls' = mint_calls + 1

\* this step's call comes with the hash of a payment already minted for
Replay == MintCallReturns /\ Payment(mint_call'.payment_tx) \in MintedPayments

\* no payment has been minted for twice
AtMostOneMint ==
    \A i, j \in DOMAIN mints :
        Payment(mints[i].payment_tx) = Payment(mints[j].payment_tx) => i = j

EntitiesOf(d, kind) == IF kind = "Character" THEN CharactersOf(d) ELSE FactionsOf(d)

\* the violations msg of the result about the entities of this kind and name
ReportedFor(msg, kind, l) ==
    {i \in DOMAIN errors :
        errors[i].msg = msg /\ errors[i].kind = kind /\ errors[i].label = l}

C23_EvidencePresence ==
    (calls >= 1 /\ PassesRule1(world_json)) =>
        \A kind \in {"Character", "Faction"} :
            /\ \A i \in DOMAIN errors :
                  errors[i].msg \in {MsgNoEvidence, MsgNotInCm} =>
                      errors[i].kind \in {"Character", "Faction"}
            /\ \A l \in EvidenceLabels \cup {errors[i].label : i \in DOMAIN errors} :
                  LET named == {i \in DOMAIN EntitiesOf(world_json, kind) :
                                   NamedBy(EntitiesOf(world_json, kind)[i]) = l}
                      without == {i \in named :
                                     LacksEvidence(EntitiesOf(world_json, kind)[i])}
                  IN  /\ Cardinality(ReportedFor(MsgNoEvidence, kind, l))
                           = Cardinality(without)
                      /\ Cardinality(ReportedFor(MsgNotInCm, kind, l))
                           <= Cardinality(named \ without)
                      /\ \A i \in ReportedFor(MsgNotInCm, kind, l) : errors[i].eid # ""

\* a faction known by its name only and without evidence_id, next to a
\* character whose evidence is not declared: one violation each
C23_Witness ==
    /\ calls = 1
    /\ PassesRule1(world_json)
    /\ Len(FactionsOf(world_json)) = 1
    /\ FactionsOf(world_json)[1] = [id |-> <<>>, name |-> <<"n1">>, evidence_id |-> <<>>]
    /\ Len(CharactersOf(world_json)) = 1
    /\ CharactersOf(world_json)[1].evidence_id = <<"evid:x">>
    /\ Cardinality(ReportedFor(MsgNoEvidence, "Faction", "n1")) = 1
    /\ Cardinality(ReportedFor(MsgNotInCm, "Faction", "n1")) = 0
    /\ Cardinality({i \in DOMAIN errors : errors[i].msg = MsgNotInCm}) = 1
    /\ Cardinality({i \in DOMAIN errors : errors[i].msg = MsgNoEvidence}) = 1

(***************************************************************************)
(* C24  Mint failure rolls back the replay guard.  Whenever a call that    *)
(* passed payment verification ends without a successful mint (signer key  *)
(* or contract configuration missing, mintAgent failing to build or send,  *)
(* mint transaction reverted), its payment hash is not left in the used    *)
(* set, and a later call with that hash is not rejected as a replay.       *)
(***************************************************************************)
\* this step's call has a valid wallet and a well-formed hash not yet in
\* the used set, and its payment verifies
PassesVerification ==
    /\ MintCallReturns
    /\ mint_call'.wallet \in {"0xW1", "0xW2"}
    /\ Payment(mint_call'.payment_tx) # "no payment"
    /\ \A h \in used_payment_txs : Payment(h) # Payment(mint_call'.payment_tx)
    /\ mint_call'.paid

C24_FailureRollsBack ==
    [][(PassesVerification /\ ~mint_call'.minted) =>
          \A h \in used_payment_txs' : Payment(h) # Payment(mint_call'.payment_tx)]_vars

(***************************************************************************)
(* C28  Decoder output count and order.  The decoder returns exactly one   *)
(* record for each top-level tuple of the input that has ten fields, in    *)
(* the order of the tuples in the input; the commas between the tuples     *)
(* produce neither a record nor a field.  The printed tuples here are      *)
(* intact ten-field tuples whose last field is not empty.                  *)
(***************************************************************************)
\* the token ids of the printed tuples, in the order they were printed
PrintedTokenIds == [i \in DOMAIN printed |-> printed[i].entry.token_id]

C28_CountAndOrder ==
    (Called /\ AllIntact /\ \A i \in DOMAIN printed : printed[i].entry.timestamp # <<>>) =>
        [k \in DOMAIN Returned |-> Returned[k].token_id] = PrintedTokenIds

(***************************************************************************)
(* Vocabulary of the job properties.                                       *)
(***************************************************************************)
Accepted(j) == j \in DOMAIN jobs

Done(j)     == Accepted(j) /\ jobs[j].status = "done"
Failed(j)   == Accepted(j) /\ jobs[j].status = "error"
Terminal(j) == Done(j) \/ Failed(j)

\* the try block of the task of job j ran to its end (the document was
\* saved), or raised
RanToEnd(j) == Accepted(j) /\ tasks[j].world_id # <<>>
Raised(j)   == Accepted(j) /\ tasks[j].exc # <<>>

\* job j has the terminal status that goes with the way its try block ended
Settled(j) == (Done(j) /\ RanToEnd(j)) \/ (Failed(j) /\ Raised(j))

\* the files whose document carries the id
FilesOf(world_id) == {f \in DOMAIN worlds : worlds[f].id = <<world_id>>}

StatusMoves ==
    {<<"pending", "running">>, <<"running", "done">>, <<"running", "error">>}
        \cup {<<st, st>> : st \in {"pending", "running", "done", "error"}}

\* every job of the store carries the attributes that go with its status
Complete ==
    \A j \in DOMAIN jobs :
        /\ jobs[j].status = "done" => (jobs[j].world_id # <<>> /\ jobs[j].is_refusal # <<>>)
        /\ jobs[j].status = "error" => jobs[j].error # <<>>

C25_StatusMachine ==
    [][/\ \A j \in DOMAIN jobs : <<jobs[j].status, jobs'[j].status>> \in StatusMoves
       /\ \A j \in DOMAIN jobs' \ DOMAIN jobs : jobs'[j].status = "pending"
       /\ DOMAIN jobs \subseteq DOMAIN jobs'
       /\ status_response'.code = 404 => jobs' = jobs
       /\ Complete']_vars

(***************************************************************************)
(* C27  Daily generation cap.  Over POST /generate, POST /api/generate and *)
(* POST /api/generate-stream together, in every interleaving, the number   *)
(* of requests accepted on one day never exceeds DAILY_GENERATION_LIMIT; a *)
(* request answered 400 or 429 leaves the counter as it was; after an      *)
(* increment the counter holds the current day's entry only; and the count *)
(* read for the current day is the number accepted on that day, 0 on a     *)
(* day that has accepted nothing.                                          *)
(***************************************************************************)
AcceptedOn(d) == IF d \in DOMAIN accepted THEN accepted[d] ELSE 0

CountedToday == IF today \in DOMAIN daily_counter THEN daily_counter[today] ELSE 0

C27_DailyCap ==
    [][/\ \A d \in 1..MaxDays : AcceptedOn(d)' <= DAILY_GENERATION_LIMIT
       /\ post_response'.code \in {400, 429} => daily_counter' = daily_counter
       /\ post_response'.code = 200 => AcceptedOn(today)' = AcceptedOn(today) + 1
       /\ daily_counter' # daily_counter => DOMAIN daily_counter' = {today'}
       /\ CountedToday' = AcceptedOn(today)']_vars

\* the cap has been reached and a further request of the day was refused
\* with 429, the counter left at the limit
C27_Witness ==
    /\ post_response.code = 429
    /\ AcceptedOn(post_response.day) = DAILY_GENERATION_LIMIT
    /\ CountedToday = DAILY_GENERATION_LIMIT

(***************************************************************************)
(* C29  No uncorrected confidence is persisted.  Every saved document that *)
(* contains a compliance_manifest has the commercial_confidence recomputed *)
(* from the risk flags and the clearance evidence of that manifest: 'low'  *)
(* with a ':high' flag or without any clearance evidence, else 'medium'    *)
(* with a ':medium' flag, else 'high' - whatever the document's shape.     *)
(***************************************************************************)
\* the manifest names clearance evidence: a declared evidence id or an entry
\* of an asset list
NamesEvidence(cm) ==
    \/ Get(cm.evidence_used, <<>>) # <<>>
    \/ Get(cm.asset_clearances, <<>>) # <<>>
    \/ Get(cm.assets_used, <<>>) # <<>>

Recomputed(cm) ==
    IF (\E f \in CarriedFlags(cm) : IsHigh(f)) \/ ~NamesEvidence(cm) THEN "low"
    ELSE IF \E f \in CarriedFlags(cm) : IsMedium(f) THEN "medium"
    ELSE "high"

C29_NoUncorrectedConfidence ==
    \A f \in DOMAIN worlds :
        LET saved == worlds[f].document
        IN  saved.compliance_manifest # <<>> =>
                saved.compliance_manifest[1].commercial_confidence
                    = <<Recomputed(saved.compliance_manifest[1])>>

(***************************************************************************)
(* C30  Saved worlds are not lost to id collisions.  Every saved document  *)
(* carries the id and the generated_at stamped by save_output - prefix     *)
(* 'refusal' with the key 'refusal' and 'world' without, the date, the     *)
(* slug - and never those the model emitted; no generation writes a file   *)
(* an earlier generation has written; and two 'done' jobs never have the   *)
(* same world_id.                                                          *)
(***************************************************************************)
\* the id and the timestamp of a saved document are those of save_output
Stamped(saved) ==
    /\ saved.id # <<>>
    /\ saved.id[1][1] = (IF saved.document.refusal # <<>> THEN "refusal" ELSE "world")
    /\ saved.id[1][2] = ":"
    /\ saved.generated_at # <<>>
    /\ saved.generated_at[1] \in (1..MaxDays) \X (0..(2 * MaxRequests))

C30_NoCollision ==
    [][/\ \A f \in DOMAIN worlds' : Stamped(worlds'[f])
       /\ \A f \in DOMAIN worlds : f \in DOMAIN worlds' /\ worlds'[f] = worlds[f]
       /\ \A i, j \in DOMAIN jobs' :
             (i # j /\ jobs'[i].world_id # <<>> /\ jobs'[j].world_id # <<>>) =>
                 jobs'[i].world_id # jobs'[j].world_id]_vars

====
